---- MODULE Spec2Model ----
(***************************************************************************)
(* Model of the structured-generation client of DecisionTrace              *)
(* (backend/app/services/llm_client.py): LLMClient.generate_structured,    *)
(* its call / validate / retry / fallback recursion and its exception      *)
(* handlers.                                                               *)
(***************************************************************************)
EXTENDS Integers, Sequences, FiniteSets, TLC

\* ------------------------------------------------------------------------
\* Bounds of the exploration
\* ------------------------------------------------------------------------
\* largest value of settings.MAX_RETRIES explored
MaxRetryLimit == 2

\* largest value of the retry_count argument a caller passes
MaxStartRetry == 1

\* ------------------------------------------------------------------------
\* Program constants
\* ------------------------------------------------------------------------
PRIMARY == "deepseek/deepseek-chat"

FALLBACK == "qwen/qwen-2.5-7b-instruct"

ModelName == {PRIMARY, FALLBACK}

LLM_TIMEOUT == 60

GracefulFailureError == "GracefulFailureError"

\* ------------------------------------------------------------------------
\* State
\* ------------------------------------------------------------------------
VARIABLES
    MAX_RETRIES,      \* settings.MAX_RETRIES
    ENABLE_FALLBACK,  \* settings.ENABLE_FALLBACK
    current_model,    \* LLMClient.current_model
    response_model,   \* response_model argument of generate_structured
    stack,            \* active generate_structured frames, outermost first
    calls,            \* _call_openrouter calls issued so far, in order
    responses,        \* what the upstream answered to each call, in order
    outcome,          \* how the outermost generate_structured ended
    args,             \* arguments of the outermost generate_structured
    pc,               \* "idle", "awaiting" (a call is in flight) or "done"
    opc,              \* where the orchestrator operation in progress stands
    op,               \* the orchestrator operation and its arguments
    stage,            \* agent_name of the stage being executed
    execution_log,    \* the execution_log list local to the operation
    ctx,              \* validated stage outputs of the run
    upstream,         \* upstream calls of the operation: agent and model
    db,               \* the decisions table
    session,          \* db_session: the Decision object it holds
    result,           \* how the orchestrator operation ended
    nops,             \* orchestrator operations started so far
    runs,             \* concurrent requests: the locals of each run
    clients,          \* the LLMClient objects: current_model of each
    alone,            \* each run replayed alone on the answers it received
    reflections       \* concurrent add_reflection calls: the locals of each

clientVars == <<MAX_RETRIES, ENABLE_FALLBACK, current_model, response_model,
                stack, calls, responses, outcome, args, pc>>

pipeVars == <<opc, op, stage, execution_log, ctx, upstream, db, session,
              result, nops>>

concVars == <<runs, clients, alone, reflections>>

vars == <<clientVars, pipeVars, concVars>>

\* ------------------------------------------------------------------------
\* Text: a string is a sequence of one-character strings.  "J" and "K"
\* each stand for a JSON document that conforms to the response model,
\* "X" for a document that does not.
\* ------------------------------------------------------------------------
Whitespace == {" ", "\n"}

ValidDocs == {"J", "K"}

\* the grave accent U+0060 (not accepted inside a TLA+ string literal)
BackTick == "bt"

\* the code-fence marker: three grave accents
Fence == <<BackTick, BackTick, BackTick>>

\* the only element of a one-element set
The(S) == CHOOSE x \in S : TRUE

RECURSIVE LStrip(_)
LStrip(s) ==
    IF s # <<>> /\ Head(s) \in Whitespace THEN LStrip(Tail(s)) ELSE s

RECURSIVE RStrip(_)
RStrip(s) ==
    IF s # <<>> /\ s[Len(s)] \in Whitespace
    THEN RStrip(SubSeq(s, 1, Len(s) - 1))
    ELSE s

\* str.strip()
Strip(s) == The({ RStrip(t) : t \in {LStrip(s)} })

\* str.startswith(p)
StartsWith(s, p) == Len(s) >= Len(p) /\ SubSeq(s, 1, Len(p)) = p

\* str.endswith(p)
EndsWith(s, p) ==
    Len(s) >= Len(p) /\ SubSeq(s, Len(s) - Len(p) + 1, Len(s)) = p

\* str.find(c) for a one-character c: 0-based index of the first
\* occurrence, -1 when there is none
Find(s, c) ==
    IF \E i \in 1..Len(s) : s[i] = c
    THEN (CHOOSE i \in 1..Len(s) :
              s[i] = c /\ \A j \in 1..(i - 1) : s[j] # c) - 1
    ELSE -1

\* LLMClient._clean_json_response
_clean_json_response(response) ==
    LET after_first_line(r0) ==
            The({ IF first_newline # -1
                  THEN SubSeq(r0, first_newline + 2, Len(r0))
                  ELSE r0 :
                  first_newline \in {Find(r0, "\n")} })
        before_last_fence(r1) ==
            IF EndsWith(r1, Fence)
            THEN SubSeq(r1, 1, Len(r1) - 3)
            ELSE r1
    IN  The({ IF StartsWith(r0, Fence)
              THEN The({ Strip(before_last_fence(r1)) :
                         r1 \in {after_first_line(r0)} })
              ELSE Strip(r0) :
              r0 \in {Strip(response)} })

\* ------------------------------------------------------------------------
\* Exceptions and results in flight
\* ------------------------------------------------------------------------
Exc(type, msg, status) == [type |-> type, msg |-> msg, status_code |-> status]

Returned(v) == [raised |-> FALSE, value |-> v, exc |-> Exc("", <<>>, 0)]

Raised(e) == [raised |-> TRUE, value |-> "", exc |-> e]

\* ------------------------------------------------------------------------
\* Response models.  "S", "D", "2" and "4" each stand for a JSON document
\* with a `scenarios` list of otherwise well-formed scenario objects.
\* ------------------------------------------------------------------------
\* ScenarioType
ScenarioType == {"best_case", "worst_case", "most_likely"}

ScenarioDocs == {"S", "D", "2", "4"}

\* the `scenario` tags of the scenarios listed in a document
ScenariosOf(d) ==
    CASE d = "S" -> <<"best_case", "worst_case", "most_likely">>
      [] d = "D" -> <<"best_case", "best_case", "worst_case">>
      [] d = "2" -> <<"best_case", "worst_case">>
      [] OTHER -> <<"best_case", "worst_case", "most_likely", "most_likely">>

\* the constraints of OutcomeSimulation.scenarios: list[OutcomeScenario]
\* with min_length=3 and max_length=3, each `scenario` a ScenarioType
OutcomeSimulation(scenarios) ==
    /\ Len(scenarios) >= 3
    /\ Len(scenarios) <= 3
    /\ \A i \in 1..Len(scenarios) : scenarios[i] \in ScenarioType

\* document d conforms to the response model
Conforms(model_class, d) ==
    IF model_class = "OutcomeSimulation"
    THEN d \in ScenarioDocs /\ OutcomeSimulation(ScenariosOf(d))
    ELSE d \in ValidDocs

\* response_model.model_validate_json: JSON parsing tolerates surrounding
\* whitespace; anything but one conforming document is a ValidationError
model_validate_json(s) ==
    The({ IF Len(doc) = 1 /\ Conforms(response_model, doc[1])
          THEN Returned([doc |-> doc[1]])
          ELSE Raised(Exc("ValidationError", <<"validation error">>, 0)) :
          doc \in {Strip(s)} })

\* ------------------------------------------------------------------------
\* The upstream: what one call of _call_openrouter can produce
\* ------------------------------------------------------------------------
\* Optional[str]
None == [none |-> TRUE, chars |-> <<>>]

Str(t) == [none |-> FALSE, chars |-> t]

\* sample response bodies: a bare conforming document, a conforming
\* document padded with whitespace, a conforming document inside a fenced
\* block with a language tag, a non-conforming document, and a fenced
\* document without any line break, a non-conforming document inside a fenced
\* block, and a conforming document inside a fenced block without a tag
ResponseTexts ==
    { <<"J">>,
      <<" ", "K", "\n">>,
      Fence \o <<"j", "\n", "J", "\n">> \o Fence,
      <<"X">>,
      Fence \o <<"J">> \o Fence,
      Fence \o <<"j", "\n", "X", "\n">> \o Fence,
      Fence \o <<"\n", "K">> \o Fence }

StatusCodes == {401, 500}

UpstreamResult(kind, text, status, msg) ==
    [kind |-> kind, text |-> text, status_code |-> status, msg |-> msg]

UpstreamResults ==
    { UpstreamResult("text", t, 0, "") : t \in ResponseTexts }
    \cup { UpstreamResult("none", <<>>, 0, "") }
    \cup { UpstreamResult("timeout", <<>>, 0, "Request timed out") }
    \cup { UpstreamResult("http_status", <<>>, c, "status error") : c \in StatusCodes }
    \cup { UpstreamResult("error", <<>>, 0, "All connection attempts failed") }

\* LLMClient._call_openrouter: the value returned or the exception raised
\* by the awaited call when the upstream answers r
_call_openrouter(r) ==
    CASE r.kind = "text" -> Returned(Str(r.text))
      [] r.kind = "none" -> Returned(None)
      [] r.kind = "timeout" -> Raised(Exc("TimeoutException", <<r.msg>>, 0))
      [] r.kind = "http_status" ->
             Raised(Exc("HTTPStatusError", <<r.msg>>, r.status_code))
      [] OTHER -> Raised(Exc("Exception", <<r.msg>>, 0))

Frame(model, retry_count) == [model |-> model, retry_count |-> retry_count]

\* no parsed value
NoValue == [doc |-> ""]

NoOutcome == [kind |-> "none", value |-> NoValue, exc |-> Exc("", <<>>, 0)]

\* ------------------------------------------------------------------------
\* One frame of generate_structured
\* ------------------------------------------------------------------------
\* what a frame does after its awaited call has answered
DoReturn(v) ==
    [do |-> "return", via |-> "success", value |-> v,
     model |-> "", retry_count |-> 0, exc |-> Exc("", <<>>, 0)]

DoRecurse(via, model, retry_count) ==
    [do |-> "recurse", via |-> via, value |-> NoValue,
     model |-> model, retry_count |-> retry_count, exc |-> Exc("", <<>>, 0)]

DoRaise(via, e) ==
    [do |-> "raise", via |-> via, value |-> NoValue,
     model |-> "", retry_count |-> 0, exc |-> e]

\* str(e) of the AttributeError raised by None.strip()
NoneStripMsg == "'NoneType' object has no attribute 'strip'"

\* variant: the raw response text is validated, not the cleaned one
ParseAndValidate_raw(response_text) ==
    IF response_text.none
    THEN Raised(Exc("AttributeError", <<NoneStripMsg>>, 0))
    ELSE model_validate_json(response_text.chars)

\* the parse and validate step of the inner try block
ParseAndValidate(response_text) ==
    IF response_text.none
    THEN Raised(Exc("AttributeError", <<NoneStripMsg>>, 0))
    ELSE model_validate_json(_clean_json_response(response_text.chars))

\* `except ValidationError` of the inner try block
InnerExceptCatches(e) == e.type = "ValidationError"

\* variant: the retry test is off by one
ValidationErrorHandler_retryLE(model, retry_count) ==
    IF retry_count <= MAX_RETRIES
    THEN DoRecurse("retrying_with_same_model", model, retry_count + 1)
    ELSE IF model = PRIMARY /\ ENABLE_FALLBACK
    THEN DoRecurse("fallback_triggered", FALLBACK, 0)
    ELSE DoRaise("all_attempts_failed",
                 Exc(GracefulFailureError,
                     <<"Decision analysis could not be completed reliably. ",
                       "All models failed validation.">>, 0))

\* variant: the retry is sent to the fallback model
ValidationErrorHandler_retryOnFallback(model, retry_count) ==
    IF retry_count < MAX_RETRIES
    THEN DoRecurse("retrying_with_same_model", FALLBACK, retry_count + 1)
    ELSE IF model = PRIMARY /\ ENABLE_FALLBACK
    THEN DoRecurse("fallback_triggered", FALLBACK, 0)
    ELSE DoRaise("all_attempts_failed",
                 Exc(GracefulFailureError,
                     <<"Decision analysis could not be completed reliably. ",
                       "All models failed validation.">>, 0))

\* variant: the fallback call keeps the retry count of the primary
ValidationErrorHandler_noReset(model, retry_count) ==
    IF retry_count < MAX_RETRIES
    THEN DoRecurse("retrying_with_same_model", model, retry_count + 1)
    ELSE IF model = PRIMARY /\ ENABLE_FALLBACK
    THEN DoRecurse("fallback_triggered", FALLBACK, retry_count)
    ELSE DoRaise("all_attempts_failed",
                 Exc(GracefulFailureError,
                     <<"Decision analysis could not be completed reliably. ",
                       "All models failed validation.">>, 0))

\* variant: the fallback branch is tested before the retry branch
ValidationErrorHandler_fallbackFirst(model, retry_count) ==
    IF model = PRIMARY /\ ENABLE_FALLBACK
    THEN DoRecurse("fallback_triggered", FALLBACK, 0)
    ELSE IF retry_count < MAX_RETRIES
    THEN DoRecurse("retrying_with_same_model", model, retry_count + 1)
    ELSE DoRaise("all_attempts_failed",
                 Exc(GracefulFailureError,
                     <<"Decision analysis could not be completed reliably. ",
                       "All models failed validation.">>, 0))

\* variant: the fallback branch does not consult settings.ENABLE_FALLBACK
ValidationErrorHandler_ignoresSetting(model, retry_count) ==
    IF retry_count < MAX_RETRIES
    THEN DoRecurse("retrying_with_same_model", model, retry_count + 1)
    ELSE IF model = PRIMARY
    THEN DoRecurse("fallback_triggered", FALLBACK, 0)
    ELSE DoRaise("all_attempts_failed",
                 Exc(GracefulFailureError,
                     <<"Decision analysis could not be completed reliably. ",
                       "All models failed validation.">>, 0))

\* variant: the model is switched when the fallback model is exhausted
ValidationErrorHandler_fromFallback(model, retry_count) ==
    IF retry_count < MAX_RETRIES
    THEN DoRecurse("retrying_with_same_model", model, retry_count + 1)
    ELSE IF model = FALLBACK /\ ENABLE_FALLBACK
    THEN DoRecurse("fallback_triggered", PRIMARY, 0)
    ELSE DoRaise("all_attempts_failed",
                 Exc(GracefulFailureError,
                     <<"Decision analysis could not be completed reliably. ",
                       "All models failed validation.">>, 0))

\* body of the `except ValidationError` handler: retry, fall back or give up
ValidationErrorHandler(model, retry_count) ==
    IF retry_count < MAX_RETRIES
    THEN DoRecurse("retrying_with_same_model", model, retry_count + 1)
    ELSE IF model = PRIMARY /\ ENABLE_FALLBACK
    THEN DoRecurse("fallback_triggered", FALLBACK, 0)
    ELSE DoRaise("all_attempts_failed",
                 Exc(GracefulFailureError,
                     <<"Decision analysis could not be completed reliably. ",
                       "All models failed validation.">>, 0))

\* variant: the last clause re-raises whatever it caught
OuterExcept_reraises(e) ==
    CASE e.type = "TimeoutException" ->
             Exc(GracefulFailureError,
                 <<"Decision analysis timed out after ",
                   ToString(LLM_TIMEOUT), " seconds.">>, 0)
      [] e.type = "HTTPStatusError" ->
             Exc(GracefulFailureError,
                 <<"LLM API error: ", ToString(e.status_code)>>, 0)
      [] OTHER -> e

\* variant: the last clause drops str(e) from its message
OuterExcept_dropsMessage(e) ==
    CASE e.type = "TimeoutException" ->
             Exc(GracefulFailureError,
                 <<"Decision analysis timed out after ",
                   ToString(LLM_TIMEOUT), " seconds.">>, 0)
      [] e.type = "HTTPStatusError" ->
             Exc(GracefulFailureError,
                 <<"LLM API error: ", ToString(e.status_code)>>, 0)
      [] e.type = GracefulFailureError -> e
      [] OTHER ->
             Exc(GracefulFailureError,
                 <<"Unexpected error during decision analysis">>, 0)

\* the three except clauses of the outer try block: the exception that
\* leaves the frame when e reaches them
OuterExcept(e) ==
    CASE e.type = "TimeoutException" ->
             Exc(GracefulFailureError,
                 <<"Decision analysis timed out after ",
                   ToString(LLM_TIMEOUT), " seconds.">>, 0)
      [] e.type = "HTTPStatusError" ->
             Exc(GracefulFailureError,
                 <<"LLM API error: ", ToString(e.status_code)>>, 0)
      [] e.type = GracefulFailureError -> e
      [] OTHER ->
             Exc(GracefulFailureError,
                 <<"Unexpected error during decision analysis: ">> \o e.msg, 0)

\* the log event of the except clause that handles e
OuterEvent(e) ==
    CASE e.type = "TimeoutException" -> "llm_call_timeout"
      [] e.type = "HTTPStatusError" -> "llm_call_http_error"
      [] OTHER -> "llm_call_unexpected_error"

\* variant: the awaited call sits inside the inner try block and the inner
\* handler catches every exception, so a failed call is retried
FrameStep_callInsideInnerTry(model, retry_count, r) ==
    LET call == _call_openrouter(r)
        parsed == ParseAndValidate(call.value)
        handled == ValidationErrorHandler(model, retry_count)
    IN  IF ~call.raised /\ ~parsed.raised
        THEN DoReturn(parsed.value)
        ELSE IF handled.do = "raise"
        THEN DoRaise(handled.via, OuterExcept(handled.exc))
        ELSE handled

\* the whole try statement of a frame running (model, retry_count) whose
\* awaited call is answered by r
FrameStep(model, retry_count, r) ==
    LET handled == ValidationErrorHandler(model, retry_count)
        after_call(call) ==
            The({ IF ~parsed.raised
                  THEN DoReturn(parsed.value)
                  ELSE IF ~InnerExceptCatches(parsed.exc)
                  THEN DoRaise(OuterEvent(parsed.exc),
                               OuterExcept(parsed.exc))
                  ELSE IF handled.do = "raise"
                  THEN DoRaise(handled.via, OuterExcept(handled.exc))
                  ELSE handled :
                  parsed \in {ParseAndValidate(call.value)} })
    IN  The({ IF call.raised
              THEN DoRaise(OuterEvent(call.exc), OuterExcept(call.exc))
              ELSE after_call(call) :
              call \in {_call_openrouter(r)} })

\* an exception raised by a recursive call passes through the outer try
\* block of each of the n enclosing frames
RECURSIVE Unwind(_, _)
Unwind(e, n) == IF n = 0 THEN e ELSE Unwind(OuterExcept(e), n - 1)

\* ------------------------------------------------------------------------
\* Orchestrator data
\* ------------------------------------------------------------------------
\* orchestrator operations explored in one behaviour
MaxOps == 2

\* rows the decisions table comes to hold in one behaviour
MaxDecisions == 1

\* primary keys the decisions table hands out
DecisionKeys == 1..MaxDecisions

\* the UUID of no row
AbsentKey == MaxDecisions + 1

\* BaseModel.model_dump(): the dict of a validated model
model_dump(v) == [dict |-> v.doc]

\* JSON null
Null == [dict |-> ""]

\* DecisionInput samples
DecisionInputs ==
    { [title |-> "t1", context |-> "c1", constraints |-> <<>>,
       options |-> <<>>],
      [title |-> "t2", context |-> "c2", constraints |-> <<"k1">>,
       options |-> <<"o1", "o2">>] }

NoInput == [title |-> "", context |-> "", constraints |-> <<>>, options |-> <<>>]

\* variant: the Decision is built without the constraints and options of
\* the input
Decision_noLists(input, structured_decision, bias_report, outcome_simulations, log) ==
    [present |-> TRUE,
     title |-> input.title,
     context |-> input.context,
     constraints |-> <<>>,
     options |-> <<>>,
     structured_decision |-> structured_decision,
     bias_report |-> bias_report,
     outcome_simulations |-> outcome_simulations,
     reflection_insight |-> Null,
     actual_outcome |-> "",
     actual_outcome_date |-> 0,
     execution_log |-> log]

\* a Decision: the columns of the decisions table that the orchestrator
\* writes (actual_outcome_date 0 is NULL)
Decision(input, structured_decision, bias_report, outcome_simulations, log) ==
    [present |-> TRUE,
     title |-> input.title,
     context |-> input.context,
     constraints |-> input.constraints,
     options |-> input.options,
     structured_decision |-> structured_decision,
     bias_report |-> bias_report,
     outcome_simulations |-> outcome_simulations,
     reflection_insight |-> Null,
     actual_outcome |-> "",
     actual_outcome_date |-> 0,
     execution_log |-> log]

\* no Decision
NoDecision ==
    [Decision(NoInput, Null, Null, Null, <<>>) EXCEPT !.present = FALSE]

\* decision_id arguments: the UUID of a key of the table, or a string that
\* is not a UUID
DecisionIdArgs ==
    { [uuid |-> TRUE, key |-> k] : k \in DecisionKeys \cup {AbsentKey} }
    \cup { [uuid |-> FALSE, key |-> 0] }

ActualOutcomes == {"it went well"}

NoOp ==
    [name |-> "", decision_input |-> NoInput,
     decision_id |-> [uuid |-> FALSE, key |-> 0], actual_outcome |-> "",
     stored |-> NoDecision]

NoCtx == [structured |-> NoValue, bias_report |-> NoValue, outcomes |-> NoValue]

\* db_session with nothing loaded: `decision` is the object it holds, `key`
\* its primary key, `pending` whether it was add()ed and awaits its INSERT,
\* `dirty` the attributes whose assignment the unit of work has recorded
NoSession == [decision |-> NoDecision, key |-> 0, pending |-> FALSE, dirty |-> {}]

NoResult == [kind |-> "none", exc |-> Exc("", <<>>, 0), decision |-> NoDecision]

\* requests served concurrently
MaxRuns == 2
\* largest retry limit of the settings under which whole requests are
\* followed (concurrently, or under fairness to their end)
MaxConcRetries == 1

Runs == 1..MaxRuns

\* the locals of a process_decision run that has not started: the frame of
\* generate_structured in progress (model, retry_count, depth of the
\* recursion), the stage, the stage outputs, the execution_log list, and
\* how the run ended
NoRun ==
    [status |-> "idle", decision_input |-> NoInput, stage |-> "",
     model |-> "", retry_count |-> 0, depth |-> 0, ctx |-> NoCtx,
     execution_log |-> <<>>, exc |-> Exc("", <<>>, 0),
     decision |-> NoDecision]

\* the locals of an add_reflection call that has not started: its own
\* db_session, the frame of generate_structured in progress, current_model
\* of its own client, the execution_log list, and how the call ended
NoReflection ==
    [status |-> "idle", session |-> NoSession, actual_outcome |-> "",
     model |-> "", retry_count |-> 0, depth |-> 0, current_model |-> "None",
     execution_log |-> <<>>, exc |-> Exc("", <<>>, 0),
     decision |-> NoDecision]

\* ------------------------------------------------------------------------
\* Initial state: the settings are loaded, the client is constructed
\* ------------------------------------------------------------------------
InitWithTable(table) ==
    /\ MAX_RETRIES \in 0..MaxRetryLimit
    /\ ENABLE_FALLBACK \in BOOLEAN
    /\ current_model = "None"
    /\ stack = <<>>
    /\ calls = <<>>
    /\ responses = <<>>
    /\ outcome = NoOutcome
    /\ args = Frame("", 0)
    /\ pc = "idle"
    /\ response_model = "None"
    /\ opc = "idle"
    /\ op = NoOp
    /\ stage = ""
    /\ execution_log = <<>>
    /\ ctx = NoCtx
    /\ upstream = <<>>
    /\ db = table
    /\ session = NoSession
    /\ result = NoResult
    /\ nops = 0
    /\ runs = [r \in Runs |-> NoRun]
    /\ clients = [r \in Runs |-> "None"]
    /\ alone = [r \in Runs |-> [run |-> NoRun, current_model |-> "None"]]
    /\ reflections = [r \in Runs |-> NoReflection]

\* the state after construction: the decisions table is empty
Init == InitWithTable([k \in DecisionKeys |-> NoDecision])

\* ------------------------------------------------------------------------
\* Actions
\* ------------------------------------------------------------------------
\* variant: the call is issued twice
Enter_issuesTwo(model, retry_count) ==
    /\ current_model' = model
    /\ stack' = Append(stack, Frame(model, retry_count))
    /\ calls' = calls \o <<Frame(model, retry_count), Frame(model, retry_count)>>
    /\ pc' = "awaiting"

\* variant: current_model is set by the outermost frame only
Enter_tracksFirstOnly(model, retry_count) ==
    /\ current_model' = IF stack = <<>> THEN model ELSE current_model
    /\ stack' = Append(stack, Frame(model, retry_count))
    /\ calls' = Append(calls, Frame(model, retry_count))
    /\ pc' = "awaiting"

\* entry of a frame: self.current_model is set and the call is issued
Enter(model, retry_count) ==
    /\ current_model' = model
    /\ stack' = Append(stack, Frame(model, retry_count))
    /\ calls' = Append(calls, Frame(model, retry_count))
    /\ pc' = "awaiting"

\* a caller invokes generate_structured(prompt, response_model, model,
\* retry_count)
GenerateStructured ==
    /\ pc = "idle"
    /\ \E model \in ModelName, retry_count \in 0..MaxStartRetry :
          /\ args' = Frame(model, retry_count)
          /\ Enter(model, retry_count)
    /\ response_model' = "TestResponse"
    /\ UNCHANGED <<MAX_RETRIES, ENABLE_FALLBACK, responses, outcome>>
    /\ UNCHANGED pipeVars
    /\ UNCHANGED concVars

Top == stack[Len(stack)]

\* the call in flight answers r and the innermost frame ends with `via`;
\* the frame either returns (the value is handed down through every
\* `return await`), calls itself again, or raises (the exception passes
\* through the handlers of every enclosing frame)
Answer(r, via) ==
    LET step == FrameStep(Top.model, Top.retry_count, r)
    IN  /\ step.via = via
        /\ responses' = Append(responses, r)
        /\ CASE step.do = "return" ->
                    /\ outcome' = [kind |-> "returned", value |-> step.value,
                                   exc |-> Exc("", <<>>, 0)]
                    /\ stack' = <<>>
                    /\ pc' = "done"
                    /\ UNCHANGED <<current_model, calls>>
             [] step.do = "recurse" ->
                    /\ Enter(step.model, step.retry_count)
                    /\ UNCHANGED outcome
             [] OTHER ->
                    /\ outcome' = [kind |-> "raised", value |-> NoValue,
                                   exc |-> Unwind(step.exc, Len(stack) - 1)]
                    /\ stack' = <<>>
                    /\ pc' = "done"
                    /\ UNCHANGED <<current_model, calls>>
        /\ UNCHANGED <<MAX_RETRIES, ENABLE_FALLBACK, args, response_model>>
        /\ UNCHANGED pipeVars
        /\ UNCHANGED concVars

ReturnParsed ==
    /\ pc = "awaiting"
    /\ \E r \in UpstreamResults : Answer(r, "success")

RetryingWithSameModel ==
    /\ pc = "awaiting"
    /\ \E r \in UpstreamResults : Answer(r, "retrying_with_same_model")

FallbackTriggered ==
    /\ pc = "awaiting"
    /\ \E r \in UpstreamResults : Answer(r, "fallback_triggered")

AllAttemptsFailed ==
    /\ pc = "awaiting"
    /\ \E r \in UpstreamResults : Answer(r, "all_attempts_failed")

LlmCallTimeout ==
    /\ pc = "awaiting"
    /\ \E r \in UpstreamResults : Answer(r, "llm_call_timeout")

LlmCallHttpError ==
    /\ pc = "awaiting"
    /\ \E r \in UpstreamResults : Answer(r, "llm_call_http_error")

LlmCallUnexpectedError ==
    /\ pc = "awaiting"
    /\ \E r \in UpstreamResults : Answer(r, "llm_call_unexpected_error")

\* the upstream answers the call in flight
UpstreamAnswers ==
    \/ ReturnParsed
    \/ RetryingWithSameModel
    \/ FallbackTriggered
    \/ AllAttemptsFailed
    \/ LlmCallTimeout
    \/ LlmCallHttpError
    \/ LlmCallUnexpectedError

Next ==
    \/ GenerateStructured
    \/ ReturnParsed
    \/ RetryingWithSameModel
    \/ FallbackTriggered
    \/ AllAttemptsFailed
    \/ LlmCallTimeout
    \/ LlmCallHttpError
    \/ LlmCallUnexpectedError

Spec == Init /\ [][Next]_vars

\* every call that was issued is eventually answered
FairSpec == Spec /\ WF_vars(UpstreamAnswers)

\* ------------------------------------------------------------------------
\* Vocabulary of the properties
\* ------------------------------------------------------------------------
\* the response is a text that, once cleaned, conforms to the response model
Validates(r) ==
    r.kind = "text" /\ ~model_validate_json(_clean_json_response(r.text)).raised

\* the response is a text that, once cleaned, does not conform
FailsValidation(r) ==
    r.kind = "text" /\ model_validate_json(_clean_json_response(r.text)).raised

\* the value the response parses to
ParsedValueOf(r) == model_validate_json(_clean_json_response(r.text)).value

Started == pc # "idle"

\* a caller's invocation on `model` with retry_count left at its default 0
StartedOn(model) == Started /\ args = Frame(model, 0)

Done == pc = "done"

Succeeded == Done /\ outcome.kind = "returned"

Failed ==
    Done /\ outcome.kind = "raised" /\ outcome.exc.type = GracefulFailureError

\* calls one model gets before its retries are exhausted
Budget == 1 + MAX_RETRIES

AllResponsesFailValidation ==
    \A i \in 1..Len(responses) : FailsValidation(responses[i])

\* positions at which two consecutive calls go to different models
Switches == {i \in 1..(Len(calls) - 1) : calls[i].model # calls[i + 1].model}

\* ------------------------------------------------------------------------
\* Properties
\* ------------------------------------------------------------------------
\* C1: started on Primary with fallback enabled and with every response
\* failing validation, generate_structured fails terminally after exactly
\* 2 * (1 + MAX_RETRIES) upstream calls, the first 1 + MAX_RETRIES of them
\* to Primary and the others to Fallback.
C1_ExhaustBothModels ==
    (StartedOn(PRIMARY) /\ ENABLE_FALLBACK /\ AllResponsesFailValidation) =>
        /\ Len(calls) <= 2 * Budget
        /\ \A i \in 1..Len(calls) :
              calls[i].model = IF i <= Budget THEN PRIMARY ELSE FALLBACK
        /\ Done <=> Len(responses) = 2 * Budget
        /\ Done => Failed

C1_Witness ==
    /\ StartedOn(PRIMARY) /\ ENABLE_FALLBACK /\ AllResponsesFailValidation
    /\ MAX_RETRIES = 1
    /\ Failed
    /\ Len(calls) = 4

\* C2: when the first response validates, generate_structured returns its
\* parsed value after exactly one upstream call.
C2_ImmediateSuccess ==
    (Len(responses) >= 1 /\ Validates(responses[1])) =>
        /\ Succeeded
        /\ outcome.value = ParsedValueOf(responses[1])
        /\ Len(calls) = 1
        /\ Len(responses) = 1

C2_Witness ==
    /\ Succeeded
    /\ Len(calls) = 1
    /\ responses[1].text = Fence \o <<"j", "\n", "J", "\n">> \o Fence
    /\ outcome.value = [doc |-> "J"]

\* C3: when the first response fails validation and the second validates
\* (MAX_RETRIES >= 1, retry_count started at 0), generate_structured returns
\* the second response's parsed value after exactly two upstream calls, both
\* to the same model.
C3_RetryOnSameModel ==
    (/\ Started /\ args.retry_count = 0 /\ MAX_RETRIES >= 1
     /\ Len(responses) >= 2
     /\ FailsValidation(responses[1])
     /\ Validates(responses[2])) =>
        /\ Succeeded
        /\ outcome.value = ParsedValueOf(responses[2])
        /\ Len(calls) = 2
        /\ calls[1].model = args.model
        /\ calls[2].model = calls[1].model

C3_Witness ==
    /\ StartedOn(PRIMARY) /\ MAX_RETRIES = 1
    /\ Len(responses) = 2
    /\ FailsValidation(responses[1])
    /\ Validates(responses[2])
    /\ Succeeded
    /\ calls = <<Frame(PRIMARY, 0), Frame(PRIMARY, 1)>>

\* C4: when all 1 + MAX_RETRIES Primary attempts fail validation and
\* fallback is enabled, generate_structured switches to Fallback exactly
\* once, with retry_count reset to 0, and returns the parsed value as soon
\* as a Fallback response validates; the calls number (1 + MAX_RETRIES) + k
\* with 1 <= k <= 1 + MAX_RETRIES.
C4_FallbackAfterPrimaryBudget ==
    (/\ StartedOn(PRIMARY) /\ ENABLE_FALLBACK
     /\ Len(responses) >= Budget
     /\ \A i \in 1..Budget : FailsValidation(responses[i])) =>
        /\ Len(calls) >= Budget + 1
        /\ Len(calls) <= 2 * Budget
        /\ calls[Budget + 1] = Frame(FALLBACK, 0)
        /\ Switches = {Budget}
        /\ \A i \in (Budget + 1)..Len(responses) :
              Validates(responses[i]) =>
                  /\ i = Len(calls)
                  /\ Succeeded
                  /\ outcome.value = ParsedValueOf(responses[i])
        /\ Succeeded => Validates(responses[Len(responses)])

C4_Witness ==
    /\ StartedOn(PRIMARY) /\ ENABLE_FALLBACK
    /\ MAX_RETRIES >= 1
    /\ Len(responses) = Budget + 2
    /\ \A i \in 1..(Budget + 1) : FailsValidation(responses[i])
    /\ Succeeded
    /\ calls[Len(calls)] = Frame(FALLBACK, 1)

\* C5: within one invocation the switch from Primary to Fallback happens
\* at most once, only after exactly 1 + MAX_RETRIES consecutive validation
\* failures on Primary (retry_count started at 0), and once Fallback has
\* been called Primary is never called again.
C5_SingleEscalation ==
    /\ Cardinality(Switches) <= 1
    /\ \A i \in 1..Len(calls) : \A j \in 1..Len(calls) :
          (i < j /\ calls[i].model = FALLBACK) => calls[j].model = FALLBACK
    /\ \A i \in Switches :
          /\ ENABLE_FALLBACK
          /\ calls[i].model = PRIMARY
          /\ args.retry_count = 0 =>
                /\ i = Budget
                /\ \A k \in 1..i :
                      calls[k].model = PRIMARY /\ FailsValidation(responses[k])

C5_Witness ==
    /\ StartedOn(PRIMARY)
    /\ MAX_RETRIES >= 1
    /\ Switches = {Budget}
    /\ Len(calls) = 2 * Budget
    /\ Done

\* the upstream call timed out or answered a non-success status
TransportFailure(r) == r.kind \in {"timeout", "http_status"}

\* the call (anything but a timeout or a status error) or the parse step
\* (anything but a validation error) raised
UnexpectedError(r) == r.kind \in {"error", "none"}

\* str(e) of the unexpected error
UnderlyingMessage(r) == IF r.kind = "none" THEN NoneStripMsg ELSE r.msg

Contains(message, part) == \E k \in 1..Len(message) : message[k] = part

\* C6: a timeout or a non-success status on any upstream call - the first
\* call, a retry or a Fallback call - makes generate_structured fail
\* terminally at once: it is the last call, never followed by a retry or a
\* fallback.
C6_TransportFailureIsTerminal ==
    \A i \in 1..Len(responses) :
        TransportFailure(responses[i]) =>
            /\ i = Len(calls)
            /\ Failed
            /\ \/ Contains(outcome.exc.msg, "Decision analysis timed out after ")
               \/ Contains(outcome.exc.msg, "LLM API error: ")

C6_Witness ==
    /\ StartedOn(PRIMARY)
    /\ Len(responses) >= 3
    /\ calls[Len(calls)] = Frame(FALLBACK, 1)
    /\ responses[Len(responses)].kind = "timeout"
    /\ Failed

\* C7: with fallback disabled, started on Primary and with every response
\* failing validation, generate_structured fails after exactly
\* 1 + MAX_RETRIES upstream calls, all to Primary; Fallback is never called.
C7_NoFallbackWhenDisabled ==
    (StartedOn(PRIMARY) /\ ~ENABLE_FALLBACK) =>
        /\ \A i \in 1..Len(calls) : calls[i].model = PRIMARY
        /\ AllResponsesFailValidation =>
              /\ Len(calls) <= Budget
              /\ Done <=> Len(responses) = Budget
              /\ Done => Failed

C7_Witness ==
    /\ StartedOn(PRIMARY) /\ ~ENABLE_FALLBACK
    /\ MAX_RETRIES = 1
    /\ AllResponsesFailValidation
    /\ Failed
    /\ calls = <<Frame(PRIMARY, 0), Frame(PRIMARY, 1)>>

\* C8: every invocation ends in exactly one of two ways: the validated
\* value of the last response is returned, or a GracefulFailureError is
\* raised; no ValidationError (nor any other kind) leaves
\* generate_structured.
C8_UniformOutcome ==
    /\ ~Done => outcome = NoOutcome
    /\ Done =>
          \/ /\ outcome.kind = "returned"
             /\ Validates(responses[Len(responses)])
             /\ outcome.value = ParsedValueOf(responses[Len(responses)])
          \/ /\ outcome.kind = "raised"
             /\ outcome.exc.type = GracefulFailureError
             /\ ~Validates(responses[Len(responses)])

C8_Witness ==
    /\ Done
    /\ outcome.kind = "raised"
    /\ Len(responses) >= 2
    /\ FailsValidation(responses[1])
    /\ responses[Len(responses)].kind = "none"

\* C9: an unexpected error in the upstream call or the parse step of any
\* attempt makes generate_structured raise a GracefulFailureError at once,
\* whose message contains the message of the underlying error; no retry
\* and no fallback call follows.
C9_UnexpectedErrorIsTerminal ==
    \A i \in 1..Len(responses) :
        UnexpectedError(responses[i]) =>
            /\ i = Len(calls)
            /\ Failed
            /\ Contains(outcome.exc.msg, UnderlyingMessage(responses[i]))

C9_Witness ==
    /\ Len(responses) >= 2
    /\ responses[Len(responses)].kind = "error"
    /\ Contains(outcome.exc.msg, "All connection attempts failed")
    /\ Failed

\* C10: every invocation started on Primary with retry_count 0 ends, by a
\* return or a raise, after at most 2 * (1 + MAX_RETRIES) upstream calls,
\* whatever the upstream answers, provided every call is answered.
C10_Terminates ==
    /\ [](StartedOn(PRIMARY) => Len(calls) <= 2 * Budget)
    /\ StartedOn(PRIMARY) ~> (Succeeded \/ Failed)

C10_Witness ==
    /\ StartedOn(PRIMARY)
    /\ MAX_RETRIES >= 1
    /\ Len(calls) = 2 * Budget
    /\ responses[Len(responses)].kind = "http_status"
    /\ Failed

\* ------------------------------------------------------------------------
\* The agents and the orchestrator (agents/base.py, agents/orchestrator.py)
\* ------------------------------------------------------------------------
STRUCTURING == "DecisionStructuringAgent"

BIAS == "BiasDetectionAgent"

OUTCOME == "OutcomeSimulationAgent"

REFLECTION == "ReflectionAgent"

\* BaseAgent.get_response_model of each agent
get_response_model(agent_name) ==
    CASE agent_name = STRUCTURING -> "StructuredDecision"
      [] agent_name = BIAS -> "BiasReport"
      [] agent_name = OUTCOME -> "OutcomeSimulation"
      [] OTHER -> "ReflectionInsight"

\* sample upstream answers to the call of a stage
StageResults(agent_name) ==
    IF agent_name = OUTCOME
    THEN { UpstreamResult("text", <<d>>, 0, "") : d \in ScenarioDocs }
         \cup { UpstreamResult("timeout", <<>>, 0, "Request timed out") }
    ELSE { UpstreamResult("text", <<IF agent_name = BIAS THEN "K" ELSE "J">>,
                          0, ""),
           UpstreamResult("text", <<"X">>, 0, ""),
           CASE agent_name = STRUCTURING ->
                    UpstreamResult("http_status", <<>>, 500, "status error")
             [] agent_name = BIAS ->
                    UpstreamResult("error", <<>>, 0,
                                   "All connection attempts failed")
             [] OTHER ->
                    UpstreamResult("error", <<>>, 0, "Host Not Found") }

\* variant: the stages are chained in another order
NextStage_swapped(agent_name) ==
    CASE agent_name = STRUCTURING -> OUTCOME
      [] agent_name = OUTCOME -> BIAS
      [] OTHER -> ""

\* variant: the last stage is followed by itself
NextStage_repeats(agent_name) ==
    CASE agent_name = STRUCTURING -> BIAS
      [] OTHER -> OUTCOME

\* process_decision: the stage that follows agent_name ("" after the last)
NextStage(agent_name) ==
    CASE agent_name = STRUCTURING -> BIAS
      [] agent_name = BIAS -> OUTCOME
      [] OTHER -> ""

\* variant: every failure that reaches the agent is wrapped anew
AgentExecute_rewraps(agent_name, res) ==
    IF ~res.raised
    THEN res
    ELSE Raised(Exc(GracefulFailureError,
                    <<agent_name, " failed: ">> \o res.exc.msg, 0))

\* BaseAgent.execute around generate_structured: a GracefulFailureError is
\* re-raised, any other exception is wrapped, a result is returned
AgentExecute(agent_name, res) ==
    IF ~res.raised \/ res.exc.type = GracefulFailureError
    THEN res
    ELSE Raised(Exc(GracefulFailureError,
                    <<agent_name, " failed: ">> \o res.exc.msg, 0))

\* variant: the success entry does not record the model
SuccessEntry_noModel(agent_name, model_used, t) ==
    [agent |-> agent_name, status |-> "success", end_time |-> t]

\* the entries _execute_with_logging and process_decision append
SuccessEntry(agent_name, model_used, t) ==
    [agent |-> agent_name, status |-> "success", end_time |-> t,
     model_used |-> model_used]

FailedEntry(agent_name, e, t) ==
    [agent |-> agent_name, status |-> "failed", error |-> e.msg,
     end_time |-> t]

UnexpectedFailedEntry(agent_name, e, t) ==
    [agent |-> agent_name, status |-> "failed", error |-> e.msg,
     error_type |-> e.type, end_time |-> t]

PipelineFailedEntry(e, t) ==
    [event |-> "pipeline_failed", error |-> e.msg, timestamp |-> t]

PipelineErrorEntry(e, t) ==
    [event |-> "pipeline_error", error |-> e.msg, error_type |-> e.type,
     timestamp |-> t]

\* what a stage hands back to its caller, with what it appended to the log
StageDone(raised, value, e, entry) ==
    [raised |-> raised, value |-> value, exc |-> e, entries |-> <<entry>>]

\* variant: a failed stage is logged but its exception is not re-raised
ExecuteWithLogging_swallows(agent_name, res, model_used, t) ==
    IF ~res.raised
    THEN StageDone(FALSE, res.value, res.exc,
                   SuccessEntry(agent_name, model_used, t))
    ELSE StageDone(FALSE, NoValue, Exc("", <<>>, 0),
                   FailedEntry(agent_name, res.exc, t))

\* variant: the success entry records the fallback model
ExecuteWithLogging_wrongModel(agent_name, res, model_used, t) ==
    IF ~res.raised
    THEN StageDone(FALSE, res.value, res.exc,
                   SuccessEntry(agent_name, FALLBACK, t))
    ELSE StageDone(TRUE, NoValue, res.exc, FailedEntry(agent_name, res.exc, t))

\* variant: the entry is appended twice
ExecuteWithLogging_logsTwice(agent_name, res, model_used, t) ==
    LET entry == IF res.raised THEN FailedEntry(agent_name, res.exc, t)
                 ELSE SuccessEntry(agent_name, model_used, t)
    IN  [raised |-> res.raised,
         value |-> IF res.raised THEN NoValue ELSE res.value,
         exc |-> res.exc,
         entries |-> <<entry, entry>>]

\* DecisionOrchestrator._execute_with_logging around agent.execute, whose
\* outcome is res; model_used is llm_client.current_model at that moment
ExecuteWithLogging(agent_name, res, model_used, t) ==
    IF ~res.raised
    THEN StageDone(FALSE, res.value, res.exc,
                   SuccessEntry(agent_name, model_used, t))
    ELSE IF res.exc.type = GracefulFailureError
    THEN StageDone(TRUE, NoValue, res.exc, FailedEntry(agent_name, res.exc, t))
    ELSE StageDone(TRUE, NoValue,
                   Exc(GracefulFailureError,
                       <<agent_name, " failed: ">> \o res.exc.msg, 0),
                   UnexpectedFailedEntry(agent_name, res.exc, t))

\* variant: the failure is re-raised without the pipeline_failed entry
ProcessDecisionExcept_noEntry(log, e, t) ==
    [log |-> log, exc |-> e]

\* the except clauses of process_decision: the log and the exception that
\* leave it when e reaches them
ProcessDecisionExcept(log, e, t) ==
    IF e.type = GracefulFailureError
    THEN [log |-> Append(log, PipelineFailedEntry(e, t)), exc |-> e]
    ELSE [log |-> Append(log, PipelineErrorEntry(e, t)),
          exc |-> Exc(GracefulFailureError,
                      <<"Decision analysis failed unexpectedly: ">> \o e.msg,
                      0)]

\* variant: _save_decision lets the database error through
SaveDecisionExcept_unwrapped(e) == e

\* the `except Exception` clause of _save_decision, after the rollback
SaveDecisionExcept(e) ==
    Exc(GracefulFailureError,
        <<"Failed to save decision to database: ">> \o e.msg, 0)

\* the except clauses of add_reflection: the exception that leaves it
AddReflectionExcept(e) ==
    IF e.type = GracefulFailureError
    THEN e
    ELSE Exc(GracefulFailureError,
             <<"Failed to add reflection: ">> \o e.msg, 0)

\* a database call that fails
DbError == Exc("OperationalError", <<"connection is closed">>, 0)

\* uuid.UUID(decision_id) of a string that is not a UUID
BadUuid == Exc("ValueError", <<"badly formed hexadecimal UUID string">>, 0)

\* ------------------------------------------------------------------------
\* Orchestrator steps: the code between two awaits is one step
\* ------------------------------------------------------------------------
\* ticks of the clock between the starts of two operations: more than the
\* entries one operation logs
ClockStride == 8

\* datetime.utcnow(), as a logical clock: it advances from one operation to
\* the next and, within an operation, with every entry logged
Now == nops * ClockStride + Len(execution_log)

\* SELECT ... WHERE id = key
Row(key) == IF key \in DecisionKeys THEN db[key] ELSE NoDecision

\* get_llm_client: every request constructs its own LLMClient
NewClient ==
    /\ current_model' = "None"
    /\ stack' = <<>>
    /\ calls' = <<>>
    /\ responses' = <<>>
    /\ outcome' = NoOutcome
    /\ args' = Frame("", 0)
    /\ pc' = "idle"
    /\ response_model' = "None"

\* BaseAgent.execute calls generate_structured(prompt, response_model) with
\* the default model and retry_count; the first upstream call is issued
Invoke(agent_name, input_data, history) ==
    /\ response_model' = get_response_model(agent_name)
    /\ args' = Frame(PRIMARY, 0)
    /\ current_model' = PRIMARY
    /\ stack' = <<Frame(PRIMARY, 0)>>
    /\ calls' = <<Frame(PRIMARY, 0)>>
    /\ responses' = <<>>
    /\ outcome' = NoOutcome
    /\ pc' = "awaiting"
    /\ upstream' = Append(history, [agent |-> agent_name, model |-> PRIMARY,
                                     input |-> input_data])

\* what the innermost frame does with the answer r
StageStep(r) == FrameStep(Top.model, Top.retry_count, r)

\* what generate_structured hands to BaseAgent.execute when its last frame
\* ends with step
GenResult(step) ==
    IF step.do = "return"
    THEN Returned(step.value)
    ELSE Raised(Unwind(step.exc, Len(stack) - 1))

\* the stage seen from the orchestrator when generate_structured ends
StageOutcome(step) ==
    ExecuteWithLogging(stage, AgentExecute(stage, GenResult(step)),
                       current_model, Now)

\* generate_structured ends: the client is left with its outcome
ClientEnds(step, r) ==
    /\ responses' = Append(responses, r)
    /\ outcome' = IF step.do = "return"
                  THEN [kind |-> "returned", value |-> step.value,
                        exc |-> Exc("", <<>>, 0)]
                  ELSE [kind |-> "raised", value |-> NoValue,
                        exc |-> Unwind(step.exc, Len(stack) - 1)]
    /\ stack' = <<>>
    /\ pc' = "done"
    /\ UNCHANGED <<current_model, calls, args, response_model>>

\* variant: the output of a stage is also stored over the output of
\* Structuring
SetCtx_overwrites(c, agent_name, v) ==
    CASE agent_name = STRUCTURING -> [c EXCEPT !.structured = v]
      [] agent_name = BIAS -> [c EXCEPT !.bias_report = v, !.structured = v]
      [] OTHER -> [c EXCEPT !.outcomes = v]

\* the local of process_decision that receives the output of a stage
SetCtx(c, agent_name, v) ==
    CASE agent_name = STRUCTURING -> [c EXCEPT !.structured = v]
      [] agent_name = BIAS -> [c EXCEPT !.bias_report = v]
      [] OTHER -> [c EXCEPT !.outcomes = v]

OpRaised(e) == [kind |-> "raised", exc |-> e, decision |-> NoDecision]

OpReturned(decision) ==
    [kind |-> "returned", exc |-> Exc("", <<>>, 0), decision |-> decision]

\* the primary key of the next INSERT
FreeKey ==
    CHOOSE k \in DecisionKeys :
        /\ ~db[k].present
        /\ \A j \in DecisionKeys : j < k => db[j].present

\* the input_data dict process_decision hands to a stage, built from the
\* input and the outputs c of the earlier stages
StageInput(agent_name, decision_input, c) ==
    CASE agent_name = STRUCTURING -> [input |-> decision_input]
      [] agent_name = BIAS ->
             [structured_decision |-> model_dump(c.structured)]
      [] OTHER ->
             [structured_decision |-> model_dump(c.structured),
              bias_report |-> model_dump(c.bias_report)]

\* the input_data dict add_reflection hands to the Reflection stage
ReflectionInput(decision, actual_outcome) ==
    [decision |-> [title |-> decision.title,
                   context |-> decision.context,
                   structured_decision |-> decision.structured_decision,
                   bias_report |-> decision.bias_report],
     outcome_simulations |-> decision.outcome_simulations,
     actual_outcome |-> actual_outcome]

\* POST /api/decisions -> DecisionOrchestrator.process_decision: the first
\* stage is started
ProcessDecision ==
    /\ opc \in {"idle", "done"}
    /\ nops < MaxOps
    /\ \E k \in DecisionKeys : ~db[k].present
    /\ \E input \in DecisionInputs :
          op' = [NoOp EXCEPT !.name = "process_decision",
                             !.decision_input = input]
    /\ nops' = nops + 1
    /\ execution_log' = <<>>
    /\ ctx' = NoCtx
    /\ session' = NoSession
    /\ result' = NoResult
    /\ stage' = STRUCTURING
    /\ Invoke(STRUCTURING,
              StageInput(STRUCTURING, op'.decision_input, NoCtx), <<>>)
    /\ opc' = "running"
    /\ UNCHANGED <<MAX_RETRIES, ENABLE_FALLBACK, db>>
    /\ UNCHANGED concVars

\* the call in flight fails validation and generate_structured calls
\* upstream again (retry or fallback) within the same stage
StageCallAgain ==
    /\ opc = "running"
    /\ \E r \in StageResults(stage) :
          \E step \in {StageStep(r)} :
              /\ step.do = "recurse"
              /\ Enter(step.model, step.retry_count)
              /\ responses' = Append(responses, r)
              /\ upstream' = Append(upstream,
                                    [agent |-> stage, model |-> step.model,
                                     input |-> upstream[Len(upstream)].input])
    /\ UNCHANGED <<MAX_RETRIES, ENABLE_FALLBACK, outcome, args,
                   response_model>>
    /\ UNCHANGED <<opc, op, stage, execution_log, ctx, db, session, result,
                   nops>>
    /\ UNCHANGED concVars

\* a stage of process_decision returns its validated output: the success
\* entry is appended and the next stage is started
StageSucceeded ==
    /\ opc = "running"
    /\ op.name = "process_decision"
    /\ NextStage(stage) # ""
    /\ \E r \in StageResults(stage) :
          \E step \in {StageStep(r)} :
          \E done \in {StageOutcome(step)} :
              /\ step.do # "recurse"
              /\ ~done.raised
              /\ execution_log' = execution_log \o done.entries
              /\ ctx' = SetCtx(ctx, stage, done.value)
              /\ stage' = NextStage(stage)
              /\ Invoke(NextStage(stage),
                        StageInput(NextStage(stage), op.decision_input,
                                   SetCtx(ctx, stage, done.value)),
                        upstream)
    /\ UNCHANGED <<MAX_RETRIES, ENABLE_FALLBACK, opc, op, db, session,
                   result, nops>>
    /\ UNCHANGED concVars

\* the last stage returns: _save_decision builds the Decision, adds it to
\* the session and awaits the commit
PipelineCompleted ==
    /\ opc = "running"
    /\ op.name = "process_decision"
    /\ NextStage(stage) = ""
    /\ \E r \in StageResults(stage) :
          \E step \in {StageStep(r)} :
          \E done \in {StageOutcome(step)} :
          LET log == execution_log \o done.entries
              c == SetCtx(ctx, stage, done.value)
          IN  /\ step.do # "recurse"
              /\ ~done.raised
              /\ execution_log' = log
              /\ ctx' = c
              /\ session' = [decision |->
                                Decision(op.decision_input,
                                         model_dump(c.structured),
                                         model_dump(c.bias_report),
                                         model_dump(c.outcomes), log),
                             key |-> 0, pending |-> TRUE, dirty |-> {}]
              /\ ClientEnds(step, r)
    /\ opc' = "committing"
    /\ UNCHANGED <<MAX_RETRIES, ENABLE_FALLBACK, op, stage, upstream, db,
                   result, nops>>
    /\ UNCHANGED concVars

\* a stage of process_decision fails: the failed entry, then the
\* pipeline_failed entry, and the failure leaves process_decision
StageFailed ==
    /\ opc = "running"
    /\ op.name = "process_decision"
    /\ \E r \in StageResults(stage) :
          \E step \in {StageStep(r)} :
          \E done \in {StageOutcome(step)} :
          LET h == ProcessDecisionExcept(execution_log \o done.entries,
                                         done.exc, Now)
          IN  /\ step.do # "recurse"
              /\ done.raised
              /\ execution_log' = h.log
              /\ result' = OpRaised(h.exc)
              /\ ClientEnds(step, r)
    /\ opc' = "done"
    /\ UNCHANGED <<MAX_RETRIES, ENABLE_FALLBACK, op, stage, ctx, upstream,
                   db, session, nops>>
    /\ UNCHANGED concVars

\* _save_decision: the commit inserts the row
SaveCommitted ==
    /\ opc = "committing"
    /\ op.name = "process_decision"
    /\ db' = [db EXCEPT ![FreeKey] = session.decision]
    /\ session' = [session EXCEPT !.key = FreeKey, !.pending = FALSE]
    /\ opc' = "refreshing"
    /\ UNCHANGED <<clientVars, op, stage, execution_log, ctx, upstream,
                   result, nops>>
    /\ UNCHANGED concVars

\* _save_decision: the refresh reloads the row; process_decision returns it
SaveRefreshed ==
    /\ opc = "refreshing"
    /\ op.name = "process_decision"
    /\ session' = [session EXCEPT !.decision = db[session.key]]
    /\ result' = OpReturned(db[session.key])
    /\ opc' = "done"
    /\ UNCHANGED <<clientVars, op, stage, execution_log, ctx, upstream, db,
                   nops>>
    /\ UNCHANGED concVars

\* _save_decision: the commit or the refresh fails; the session is rolled
\* back and the failure passes through the handlers of process_decision
\* (when the rollback fails too, its exception is the one that passes)
SaveFails ==
    /\ opc \in {"committing", "refreshing"}
    /\ op.name = "process_decision"
    /\ \E rollback_ok \in BOOLEAN :
          LET e == IF rollback_ok THEN SaveDecisionExcept(DbError)
                   ELSE DbError
              h == ProcessDecisionExcept(execution_log, e, Now)
          IN  /\ execution_log' = h.log
              /\ result' = OpRaised(h.exc)
              /\ session' = IF rollback_ok THEN NoSession ELSE session
    /\ opc' = "done"
    /\ UNCHANGED <<clientVars, op, stage, ctx, upstream, db, nops>>
    /\ UNCHANGED concVars

\* str(decision_id) in the message of the lookup
IdString(decision_id) ==
    IF decision_id.uuid THEN ToString(decision_id.key) ELSE "not-a-uuid"

\* variant: the lookup failure is reported in other words
NotFound_otherWords(decision_id) ==
    Exc(GracefulFailureError,
        <<"Decision ", IdString(decision_id), " is missing">>, 0)

\* add_reflection: `if not decision: raise GracefulFailureError(...)`
NotFound(decision_id) ==
    Exc(GracefulFailureError,
        <<"Decision ", IdString(decision_id), " not found">>, 0)

\* POST /api/decisions/{id}/reflect -> DecisionOrchestrator.add_reflection:
\* UUID(decision_id) is evaluated and the select is awaited; a string that
\* is not a UUID raises ValueError, which the `except Exception` clause
\* wraps after the rollback
AddReflection ==
    /\ opc \in {"idle", "done"}
    /\ nops < MaxOps
    /\ \E decision_id \in DecisionIdArgs, actual_outcome \in ActualOutcomes :
          /\ op' = [NoOp EXCEPT !.name = "add_reflection",
                                !.decision_id = decision_id,
                                !.actual_outcome = actual_outcome]
          /\ IF decision_id.uuid
             THEN /\ opc' = "selecting"
                  /\ result' = NoResult
             ELSE /\ opc' = "done"
                  /\ result' = OpRaised(AddReflectionExcept(BadUuid))
    /\ nops' = nops + 1
    /\ execution_log' = <<>>
    /\ upstream' = <<>>
    /\ ctx' = NoCtx
    /\ session' = NoSession
    /\ stage' = ""
    /\ NewClient
    /\ UNCHANGED <<MAX_RETRIES, ENABLE_FALLBACK, db>>
    /\ UNCHANGED concVars

\* the select finds the row: the Decision is loaded into the session and
\* the Reflection stage is started
ReflectionStarted ==
    /\ opc = "selecting"
    /\ Row(op.decision_id.key).present
    /\ session' = [decision |-> Row(op.decision_id.key),
                   key |-> op.decision_id.key, pending |-> FALSE,
                   dirty |-> {}]
    /\ op' = [op EXCEPT !.stored = Row(op.decision_id.key)]
    /\ stage' = REFLECTION
    /\ Invoke(REFLECTION,
              ReflectionInput(Row(op.decision_id.key), op.actual_outcome),
              upstream)
    /\ opc' = "running"
    /\ UNCHANGED <<MAX_RETRIES, ENABLE_FALLBACK, execution_log, ctx, db,
                   result, nops>>
    /\ UNCHANGED concVars

\* the select finds no row
DecisionNotFound ==
    /\ opc = "selecting"
    /\ ~Row(op.decision_id.key).present
    /\ result' = OpRaised(AddReflectionExcept(NotFound(op.decision_id)))
    /\ opc' = "done"
    /\ UNCHANGED <<clientVars, op, stage, execution_log, ctx, upstream, db,
                   session, nops>>
    /\ UNCHANGED concVars

\* a database call of add_reflection (select, commit or refresh) fails
ReflectionDbFails ==
    /\ opc \in {"selecting", "committing", "refreshing"}
    /\ op.name = "add_reflection"
    /\ session' = NoSession
    /\ result' = OpRaised(AddReflectionExcept(DbError))
    /\ opc' = "done"
    /\ UNCHANGED <<clientVars, op, stage, execution_log, ctx, upstream, db,
                   nops>>
    /\ UNCHANGED concVars

\* add_reflection after the stage: three attributes are assigned; the log
\* is extended in place when the stored one is non-empty, assigned
\* otherwise. Only assignments are recorded by the unit of work: the
\* execution_log column is a plain JSONB without mutation tracking
ApplyReflection(sess, insight, actual_outcome, t, log) ==
    LET d == sess.decision
        in_place == d.execution_log # <<>>
    IN  [sess EXCEPT
            !.decision = [d EXCEPT
                            !.reflection_insight = model_dump(insight),
                            !.actual_outcome = actual_outcome,
                            !.actual_outcome_date = t,
                            !.execution_log = IF in_place
                                              THEN d.execution_log \o log
                                              ELSE log],
            !.dirty = {"reflection_insight", "actual_outcome",
                       "actual_outcome_date"}
                      \cup (IF in_place THEN {} ELSE {"execution_log"})]

\* variant: the UPDATE writes the insight and leaves the outcome columns
Flush_insightOnly(row, sess) ==
    [a \in DOMAIN row |->
        IF a \in sess.dirty \cap {"reflection_insight", "execution_log"}
        THEN sess.decision[a]
        ELSE row[a]]

\* the UPDATE of a commit: the recorded attributes are written to the row
Flush(row, sess) ==
    [a \in DOMAIN row |-> IF a \in sess.dirty THEN sess.decision[a]
                          ELSE row[a]]

\* the Reflection stage returns: its entry is appended, the Decision is
\* updated and the commit is awaited
ReflectionSucceeded ==
    /\ opc = "running"
    /\ op.name = "add_reflection"
    /\ \E r \in StageResults(stage) :
          LET step == StageStep(r)
              done == StageOutcome(step)
              log == execution_log \o done.entries
          IN  /\ step.do # "recurse"
              /\ ~done.raised
              /\ execution_log' = log
              /\ session' = ApplyReflection(session, done.value,
                                            op.actual_outcome, Now, log)
              /\ ClientEnds(step, r)
    /\ opc' = "committing"
    /\ UNCHANGED <<MAX_RETRIES, ENABLE_FALLBACK, op, stage, ctx, upstream,
                   db, result, nops>>
    /\ UNCHANGED concVars

\* the Reflection stage fails: `except GracefulFailureError: raise`
ReflectionFailed ==
    /\ opc = "running"
    /\ op.name = "add_reflection"
    /\ \E r \in StageResults(stage) :
          LET step == StageStep(r)
              done == StageOutcome(step)
          IN  /\ step.do # "recurse"
              /\ done.raised
              /\ execution_log' = execution_log \o done.entries
              /\ result' = OpRaised(AddReflectionExcept(done.exc))
              /\ ClientEnds(step, r)
    /\ opc' = "done"
    /\ UNCHANGED <<MAX_RETRIES, ENABLE_FALLBACK, op, stage, ctx, upstream,
                   db, session, nops>>
    /\ UNCHANGED concVars

\* the commit of add_reflection writes the recorded attributes
ReflectionCommitted ==
    /\ opc = "committing"
    /\ op.name = "add_reflection"
    /\ db' = [db EXCEPT ![session.key] = Flush(db[session.key], session)]
    /\ session' = [session EXCEPT !.dirty = {}]
    /\ opc' = "refreshing"
    /\ UNCHANGED <<clientVars, op, stage, execution_log, ctx, upstream,
                   result, nops>>
    /\ UNCHANGED concVars

\* the refresh reloads the Decision from its row; add_reflection returns it
ReflectionRefreshed ==
    /\ opc = "refreshing"
    /\ op.name = "add_reflection"
    /\ session' = [session EXCEPT !.decision = db[session.key]]
    /\ result' = OpReturned(db[session.key])
    /\ opc' = "done"
    /\ UNCHANGED <<clientVars, op, stage, execution_log, ctx, upstream, db,
                   nops>>
    /\ UNCHANGED concVars

PipeNext ==
    \/ ProcessDecision
    \/ StageCallAgain
    \/ StageSucceeded
    \/ PipelineCompleted
    \/ StageFailed
    \/ SaveCommitted
    \/ SaveRefreshed
    \/ SaveFails
    \/ AddReflection
    \/ ReflectionStarted
    \/ DecisionNotFound
    \/ ReflectionDbFails
    \/ ReflectionSucceeded
    \/ ReflectionFailed
    \/ ReflectionCommitted
    \/ ReflectionRefreshed

PipeSpec == Init /\ [][PipeNext]_vars

\* ------------------------------------------------------------------------
\* Vocabulary of the orchestrator properties
\* ------------------------------------------------------------------------
\* position of a stage in the pipeline
StageIndex(agent_name) ==
    CASE agent_name = STRUCTURING -> 1
      [] agent_name = BIAS -> 2
      [] agent_name = OUTCOME -> 3
      [] OTHER -> 4

\* an entry written by _execute_with_logging (as opposed to a pipeline event)
IsStageEntry(e) == "agent" \in DOMAIN e

IsSuccessEntry(e, agent_name) ==
    IsStageEntry(e) /\ e.agent = agent_name /\ e.status = "success"

IsFailedEntry(e, agent_name) ==
    IsStageEntry(e) /\ e.agent = agent_name /\ e.status = "failed"

IsPipelineFailed(e) ==
    "event" \in DOMAIN e /\ e.event = "pipeline_failed"

\* the stage entries of a log for one agent
EntriesOf(log, agent_name) ==
    { i \in 1..Len(log) : IsStageEntry(log[i]) /\ log[i].agent = agent_name }

\* the upstream calls of the running operation made for one agent
CallsOf(agent_name) ==
    { i \in 1..Len(upstream) : upstream[i].agent = agent_name }

\* v is an output that passed the validation of the agent's response model
ValidatedOutput(agent_name, v) ==
    Conforms(get_response_model(agent_name), v.doc)

InProcessDecision == op.name = "process_decision"

InAddReflection == op.name = "add_reflection"

\* ------------------------------------------------------------------------
\* Properties of the orchestrator
\* ------------------------------------------------------------------------
\* C11: process_decision runs Structuring, then BiasDetection, then
\* OutcomeSimulation: the upstream calls start with Structuring, a call
\* belongs to the stage of the previous call or to the stage right after
\* it, the first call of a stage is made only when the previous stage has
\* returned a validated output and logged its success, and no stage is
\* executed twice.
C11_StagesInOrder ==
    InProcessDecision =>
        /\ upstream # <<>>
        /\ upstream[1].agent = STRUCTURING
        /\ \A i \in 1..(Len(upstream) - 1) :
              \/ upstream[i + 1].agent = upstream[i].agent
              \/ StageIndex(upstream[i + 1].agent)
                    = StageIndex(upstream[i].agent) + 1
        /\ \A i \in 1..Len(upstream) : StageIndex(upstream[i].agent) <= 3
        /\ CallsOf(BIAS) # {} =>
              /\ ValidatedOutput(STRUCTURING, ctx.structured)
              /\ Len(execution_log) >= 1
              /\ IsSuccessEntry(execution_log[1], STRUCTURING)
        /\ CallsOf(OUTCOME) # {} =>
              /\ ValidatedOutput(BIAS, ctx.bias_report)
              /\ Len(execution_log) >= 2
              /\ IsSuccessEntry(execution_log[2], BIAS)
        /\ \A a \in {STRUCTURING, BIAS, OUTCOME} :
              Cardinality(EntriesOf(execution_log, a)) <= 1

\* a process_decision that ran its three stages and returned
C11_Witness ==
    /\ InProcessDecision
    /\ opc = "done"
    /\ result.kind = "returned"
    /\ CallsOf(STRUCTURING) # {}
    /\ CallsOf(BIAS) # {}
    /\ CallsOf(OUTCOME) # {}

\* the stage with a given position
StageAt(n) ==
    CASE n = 1 -> STRUCTURING
      [] n = 2 -> BIAS
      [] OTHER -> OUTCOME

\* generate_structured has failed terminally for the stage in progress
StageFailedTerminally == outcome.kind = "raised"

\* C12: when a stage of process_decision fails terminally the pipeline is
\* aborted at once: the operation has ended, the failure of the stage is
\* the GracefulFailureError raised to the caller, no upstream call was made
\* for a later stage, and _save_decision was not invoked (no Decision was
\* built or added to the session).
C12_AbortOnStageFailure ==
    (InProcessDecision /\ StageFailedTerminally) =>
        /\ opc = "done"
        /\ result.kind = "raised"
        /\ result.exc.type = GracefulFailureError
        /\ result.exc = outcome.exc
        /\ upstream[Len(upstream)].agent = stage
        /\ \A i \in 1..Len(upstream) :
              StageIndex(upstream[i].agent) <= StageIndex(stage)
        /\ session = NoSession
        /\ result.decision = NoDecision

\* the second stage fails after the first succeeded
C12_Witness ==
    /\ InProcessDecision
    /\ StageFailedTerminally
    /\ stage = BIAS
    /\ opc = "done"

\* C13: when stage n of process_decision fails, the execution log is: the
\* success entry of every stage before n, in order; then the entries of
\* stage n, all with status failed and at least one; then the
\* pipeline_failed entry, last.
C13_LogOfFailedRun ==
    (InProcessDecision /\ StageFailedTerminally) =>
        LET n == StageIndex(stage)
            last == Len(execution_log)
        IN  /\ last >= n + 1
            /\ \A i \in 1..(n - 1) :
                  IsSuccessEntry(execution_log[i], StageAt(i))
            /\ \A i \in n..(last - 1) :
                  /\ IsFailedEntry(execution_log[i], stage)
                  /\ execution_log[i].error = outcome.exc.msg
            /\ IsPipelineFailed(execution_log[last])
            /\ execution_log[last].error = outcome.exc.msg

\* the third stage fails after a further attempt
C13_Witness ==
    /\ InProcessDecision
    /\ StageFailedTerminally
    /\ stage = OUTCOME
    /\ Cardinality(CallsOf(OUTCOME)) >= 2
    /\ Len(execution_log) = 4

\* the stage of agent_name has been executed to its end
Executed(agent_name) ==
    /\ CallsOf(agent_name) # {}
    /\ ~(agent_name = stage /\ opc = "running")

AllAgents == {STRUCTURING, BIAS, OUTCOME, REFLECTION}

PipelineSucceeded ==
    /\ InProcessDecision
    /\ stage = OUTCOME
    /\ outcome.kind = "returned"
    /\ result.kind # "raised"

\* C15: when each of the three stages validates on its first attempt, the
\* execution log of the run is exactly three entries, the success entries
\* of Structuring, BiasDetection and OutcomeSimulation in that order, each
\* with model_used Primary; the Decision built from the run carries that
\* log.
C15_HappyPathLog ==
    (PipelineSucceeded /\ Len(upstream) = 3) =>
        /\ Len(execution_log) = 3
        /\ \A i \in 1..3 :
              /\ IsSuccessEntry(execution_log[i], StageAt(i))
              /\ execution_log[i].model_used = PRIMARY
        /\ session.decision.execution_log = execution_log
        /\ result.kind = "returned" =>
              result.decision.execution_log = execution_log

\* a run of three first-attempt successes that was saved and returned
C15_Witness ==
    /\ PipelineSucceeded
    /\ Len(upstream) = 3
    /\ opc = "done"
    /\ result.kind = "returned"

IsPrefix(a, b) == Len(a) <= Len(b) /\ SubSeq(b, 1, Len(a)) = a

\* the time an entry was written
TimeOf(e) == IF IsStageEntry(e) THEN e.end_time ELSE e.timestamp

Chronological(log) ==
    \A i, j \in 1..Len(log) : i < j => TimeOf(log[i]) <= TimeOf(log[j])

\* the execution log of the Decision the session holds, before and after a
\* step of one operation
DecisionLogKept ==
    (nops' = nops /\ session.decision.present /\ session'.decision.present)
        => IsPrefix(session.decision.execution_log,
                    session'.decision.execution_log)

\* C16: the execution log is append-only in every step of process_decision
\* and add_reflection, and its entries are in chronological order: within
\* an operation the list of the run and the log of the Decision in hand
\* only grow at the end, the stored log of a row only grows at the end, and
\* each of them is ordered by time.
C16_AppendOnlyLog ==
    [][ /\ nops' = nops => IsPrefix(execution_log, execution_log')
        /\ DecisionLogKept
        /\ \A k \in DecisionKeys :
              db[k].present =>
                  IsPrefix(db[k].execution_log, db'[k].execution_log)
        /\ Chronological(execution_log')
        /\ Chronological(session'.decision.execution_log)
        /\ \A k \in DecisionKeys : Chronological(db'[k].execution_log)
      ]_vars

\* the lookup of add_reflection found no row and said so (as opposed to a
\* lookup that failed)
LookupFoundNothing ==
    /\ InAddReflection
    /\ opc = "selecting"
    /\ ~Row(op.decision_id.key).present
    /\ result'.exc # AddReflectionExcept(DbError)

\* C17: add_reflection with a well-formed id that no row has raises a
\* GracefulFailureError whose message contains ' not found', without any
\* generation call and without writing anything: the table, the session
\* and the log are as they were.
C17_AbsentIdNotFound ==
    [][ LookupFoundNothing =>
            /\ opc' = "done"
            /\ result'.kind = "raised"
            /\ result'.exc.type = GracefulFailureError
            /\ Contains(result'.exc.msg, " not found")
            /\ upstream' = <<>>
            /\ calls' = <<>>
            /\ pc' # "awaiting"
            /\ db' = db
            /\ session' = NoSession
            /\ execution_log' = <<>>
      ]_vars

\* an add_reflection that ended with the lookup finding no row
C17_Witness ==
    /\ InAddReflection
    /\ opc = "done"
    /\ op.decision_id.uuid
    /\ ~Row(op.decision_id.key).present
    /\ result.kind = "raised"
    /\ result.exc = NotFound(op.decision_id)

\* C18: after a successful add_reflection on a decision whose stored log
\* was L, the log persisted in the row and the log of the returned
\* Decision are L followed by the entries of the Reflection stage.
C18_LogExtended ==
    (InAddReflection /\ opc = "done" /\ result.kind = "returned") =>
        /\ db[session.key].execution_log
              = op.stored.execution_log \o execution_log
        /\ result.decision.execution_log
              = op.stored.execution_log \o execution_log

\* C19: when the Reflection stage fails terminally, add_reflection ends
\* with that failure and every persisted field of the decision is what it
\* was when the decision was loaded.
C19_FailedReflectionWritesNothing ==
    (InAddReflection /\ StageFailedTerminally) =>
        /\ opc = "done"
        /\ result.kind = "raised"
        /\ result.exc = outcome.exc
        /\ db[session.key] = op.stored

\* a Reflection stage failed on a stored decision
C19_Witness ==
    /\ InAddReflection
    /\ StageFailedTerminally
    /\ op.stored.present
    /\ opc = "done"

\* each of the three tags exactly once
OneOfEach(scenarios) ==
    \A tag \in ScenarioType :
        Cardinality({ i \in 1..Len(scenarios) : scenarios[i] = tag }) = 1

\* C20: an OutcomeSimulation response is accepted exactly when it has three
\* scenarios carrying best_case, worst_case and most_likely once each; any
\* other response is a validation failure, answered by a retry, the
\* fallback or the terminal failure.
C20_OneScenarioPerTag ==
    response_model = "OutcomeSimulation" =>
        \A i \in 1..Len(responses) :
            responses[i].kind = "text" =>
                LET doc == Strip(_clean_json_response(responses[i].text))
                    accepted == /\ i = Len(responses)
                                /\ pc = "done"
                                /\ outcome.kind = "returned"
                IN  accepted <=> (Len(doc) = 1 /\ OneOfEach(ScenariosOf(doc[1])))

\* upstream calls of the current generate_structured invocation that have
\* been issued and not yet answered
Outstanding == Len(calls) - Len(responses)

\* C21: within a run of process_decision or add_reflection at most one
\* upstream call is outstanding: one while the run awaits the client,
\* none otherwise, so that a call is issued only when every earlier call of
\* the run has returned or failed.
C21_OneCallOutstanding ==
    (InProcessDecision \/ InAddReflection) =>
        /\ Outstanding \in {0, 1}
        /\ Outstanding = 1 <=> pc = "awaiting"
        /\ pc = "awaiting" <=> opc = "running"

\* a retry or fallback call is outstanding, the earlier calls are answered
C21_Witness ==
    /\ InAddReflection
    /\ pc = "awaiting"
    /\ Len(calls) >= 2
    /\ Len(responses) = Len(calls) - 1

\* ------------------------------------------------------------------------
\* Concurrent requests: each POST /api/decisions is served by its own task;
\* tasks interleave at their awaits
\* ------------------------------------------------------------------------
\* variant: one LLMClient serves every request
get_llm_client_shared(r) == 1

\* get_llm_client: the LLMClient object of request r, constructed for it
get_llm_client(r) == r

\* the decision submitted by request r
RunInput(r) ==
    [title |-> "t" \o ToString(r), context |-> "c" \o ToString(r),
     constraints |-> <<>>, options |-> <<"o1", "o2">>]

\* sample upstream answers to a call of a concurrent run
RunResults ==
    { UpstreamResult("text", <<"J">>, 0, ""),
      UpstreamResult("text", <<"X">>, 0, "") }

\* a pair of the locals of a run and the current_model of its client
RunAndClient(run, model) == [run |-> run, current_model |-> model]

\* process_decision up to its first await: the first stage is started and
\* generate_structured sets current_model
RunStart(decision_input) ==
    RunAndClient([NoRun EXCEPT !.status = "running",
                               !.decision_input = decision_input,
                               !.stage = STRUCTURING,
                               !.model = PRIMARY,
                               !.depth = 1],
                 PRIMARY)

\* process_decision after a stage has ended with done (what
\* _execute_with_logging returned or raised, and logged): next stage,
\* _save_decision, or failure
RunAfterStage(run, cm, done) ==
    LET t == Len(run.execution_log)
        log == run.execution_log \o done.entries
        c == SetCtx(run.ctx, run.stage, done.value)
    IN  IF done.raised
        THEN The({ RunAndClient([run EXCEPT !.status = "failed",
                                            !.execution_log = h.log,
                                            !.exc = h.exc],
                                cm) :
                   h \in {ProcessDecisionExcept(log, done.exc, t)} })
        ELSE IF NextStage(run.stage) # ""
        THEN RunAndClient([run EXCEPT !.stage = NextStage(run.stage),
                                      !.model = PRIMARY,
                                      !.retry_count = 0,
                                      !.depth = 1,
                                      !.ctx = c,
                                      !.execution_log = log],
                          PRIMARY)
        ELSE RunAndClient([run EXCEPT
                              !.status = "committing",
                              !.ctx = c,
                              !.execution_log = log,
                              !.decision =
                                  Decision(run.decision_input,
                                           model_dump(c.structured),
                                           model_dump(c.bias_report),
                                           model_dump(c.outcomes), log)],
                          cm)

\* process_decision after the innermost frame of generate_structured has
\* done step: retry or fallback inside the stage, or the end of the stage,
\* logged with the current_model cm of the client
RunAfterFrame(run, cm, step) ==
    IF step.do = "recurse"
    THEN RunAndClient([run EXCEPT !.model = step.model,
                                  !.retry_count = step.retry_count,
                                  !.depth = @ + 1],
                      step.model)
    ELSE The({ RunAfterStage(run, cm, done) :
               done \in { ExecuteWithLogging(
                              run.stage,
                              AgentExecute(run.stage, gen),
                              cm, Len(run.execution_log)) :
                          gen \in { IF step.do = "return"
                                    THEN Returned(step.value)
                                    ELSE Raised(Unwind(step.exc,
                                                       run.depth - 1)) } } })

\* process_decision from the answer res of the call in flight to its next
\* await, for a run whose client has current_model cm
RunStep(run, cm, res) ==
    The({ RunAfterFrame(run, cm, step) :
          step \in {FrameStep(run.model, run.retry_count, res)} })

\* a request arrives and its run starts
RunStarts ==
    /\ \E r \in Runs :
          /\ runs[r].status = "idle"
          /\ runs' = [runs EXCEPT ![r] = RunStart(RunInput(r)).run]
          /\ clients' = [clients EXCEPT
                            ![get_llm_client(r)] =
                                RunStart(RunInput(r)).current_model]
          /\ alone' = [alone EXCEPT ![r] = RunStart(RunInput(r))]
    /\ UNCHANGED <<clientVars, pipeVars, reflections>>

\* the upstream call of one run is answered and the run proceeds to its
\* next await
RunAnswered ==
    /\ \E r \in Runs, res \in RunResults :
          /\ runs[r].status = "running"
          /\ \E next \in {RunStep(runs[r], clients[get_llm_client(r)], res)} :
                /\ runs' = [runs EXCEPT ![r] = next.run]
                /\ clients' = [clients EXCEPT
                                  ![get_llm_client(r)] = next.current_model]
          /\ alone' = [alone EXCEPT
                          ![r] = RunStep(alone[r].run,
                                         alone[r].current_model, res)]
    /\ UNCHANGED <<clientVars, pipeVars, reflections>>

\* _save_decision of a run whose commit and refresh succeed: the Decision
\* is returned
RunSave(run) == [run EXCEPT !.status = "done"]

\* _save_decision of a run whose commit fails: the failure passes through
\* the handlers of process_decision
RunSaveFailure(run) ==
    LET h == ProcessDecisionExcept(run.execution_log,
                                   SaveDecisionExcept(DbError),
                                   Len(run.execution_log))
    IN  [run EXCEPT !.status = "failed",
                    !.execution_log = h.log,
                    !.exc = h.exc,
                    !.decision = NoDecision]

\* the commit of one run is answered
RunSaved ==
    /\ \E r \in Runs :
          /\ runs[r].status = "committing"
          /\ runs' = [runs EXCEPT ![r] = RunSave(runs[r])]
          /\ alone' = [alone EXCEPT
                          ![r] = RunAndClient(RunSave(alone[r].run),
                                              alone[r].current_model)]
    /\ UNCHANGED <<clientVars, pipeVars, clients, reflections>>

\* the commit of one run fails
RunSaveFails ==
    /\ \E r \in Runs :
          /\ runs[r].status = "committing"
          /\ runs' = [runs EXCEPT ![r] = RunSaveFailure(runs[r])]
          /\ alone' = [alone EXCEPT
                          ![r] = RunAndClient(RunSaveFailure(alone[r].run),
                                              alone[r].current_model)]
    /\ UNCHANGED <<clientVars, pipeVars, clients, reflections>>

ConcNext ==
    \/ RunStarts
    \/ RunAnswered
    \/ RunSaved
    \/ RunSaveFails

\* the settings of the concurrent runs: the retry limit is kept small
ConcInit ==
    /\ Init
    /\ MAX_RETRIES <= MaxConcRetries

ConcSpec == ConcInit /\ [][ConcNext]_vars

\* C22: concurrent process_decision runs are independent: under every
\* interleaving of their steps, the execution log, the stage outputs and
\* the outcome of each run are those of the same run executed alone on the
\* upstream answers it received, and the Decision it builds is made of its
\* own input and outputs.
C22_RunsIndependent ==
    \A r \in Runs :
        /\ runs[r] = alone[r].run
        /\ runs[r].decision.present =>
              /\ runs[r].decision.title = RunInput(r).title
              /\ runs[r].decision.execution_log = runs[r].execution_log

\* two runs in flight at once, one on the Fallback model with a stage
\* already logged, the other on the Primary model
C22_Witness ==
    \E r, q \in Runs :
        /\ r # q
        /\ runs[r].status = "running"
        /\ runs[q].status = "running"
        /\ runs[r].model = FALLBACK
        /\ runs[q].model = PRIMARY
        /\ runs[q].execution_log # <<>>

\* ------------------------------------------------------------------------
\* Propagation of a terminal failure
\* ------------------------------------------------------------------------
\* C23: a terminal failure raised by the client during a stage of
\* process_decision or add_reflection reaches the caller of the operation
\* as the same kind of failure with the same message: the exception that
\* leaves the operation is the one that left generate_structured, wrapped
\* again neither by the agent nor by the orchestrator.
C23_FailurePropagatesUnchanged ==
    ((InProcessDecision \/ InAddReflection) /\ outcome.kind = "raised") =>
        /\ opc = "done"
        /\ result.kind = "raised"
        /\ result.exc.type = outcome.exc.type
        /\ result.exc.msg = outcome.exc.msg
        /\ result.exc.status_code = outcome.exc.status_code

C23_Witness ==
    /\ InAddReflection
    /\ outcome.kind = "raised"
    /\ Len(calls) >= 2
    /\ result.kind = "raised"
    /\ result.exc.msg # <<>>

\* ------------------------------------------------------------------------
\* POST /api/decisions/{decision_id}/reflect
\* ------------------------------------------------------------------------
\* the pieces of a message p for which `"not found" in p.lower()`
SaysNotFound == {" not found", "Host Not Found"}

\* `"not found" in str(e).lower()`
NotFoundInLower(message) ==
    \E k \in 1..Len(message) : message[k] \in SaysNotFound

\* the status code the reflect route answers with when
\* orchestrator.add_reflection has ended with res
add_reflection_route(res) ==
    IF res.kind = "returned"
    THEN 200
    ELSE IF res.exc.type = GracefulFailureError
    THEN IF NotFoundInLower(res.exc.msg) THEN 404 ELSE 500
    ELSE 500

\* the reflect request has been answered
Answered == InAddReflection /\ opc = "done"

\* C24: the reflect endpoint answers a decision id that is not a
\* well-formed UUID with 400, not with 404 or 500.
C24_BadUuidIs400 ==
    (Answered /\ ~op.decision_id.uuid) => add_reflection_route(result) = 400

\* the lookup of add_reflection completed and found no row
DecisionAbsent ==
    /\ op.decision_id.uuid
    /\ ~Row(op.decision_id.key).present
    /\ result.exc # AddReflectionExcept(DbError)

\* C30: the reflect endpoint answers 404 exactly when the decision id is
\* absent: a request for a well-formed id is answered 404 if and only if
\* the lookup found no row, and a failure for an existing decision
\* (validation exhausted, timeout, transport error, unexpected error, commit
\* failure), whatever the text of its message, is answered 500.
C30_NotFoundOnlyWhenAbsent ==
    (Answered /\ op.decision_id.uuid) =>
        /\ add_reflection_route(result) = 404 <=> DecisionAbsent
        /\ (Row(op.decision_id.key).present /\ result.kind = "raised") =>
               add_reflection_route(result) = 500

\* ------------------------------------------------------------------------
\* The model recorded by the client
\* ------------------------------------------------------------------------
\* C25: after generate_structured has returned successfully, current_model
\* of the client is the model whose response was validated, the model of
\* the last call: Primary when the invocation started on Primary and never
\* escalated, Fallback when it escalated or started on Fallback.
C25_CurrentModelIsValidatedModel ==
    Succeeded =>
        /\ Len(responses) = Len(calls)
        /\ Validates(responses[Len(responses)])
        /\ current_model = calls[Len(calls)].model
        /\ current_model = IF args.model = FALLBACK \/ Switches # {}
                           THEN FALLBACK
                           ELSE PRIMARY

C25_Witness ==
    /\ Succeeded
    /\ args.model = PRIMARY
    /\ Switches # {}
    /\ current_model = FALLBACK

\* ------------------------------------------------------------------------
\* What is saved
\* ------------------------------------------------------------------------
\* d is the Decision assembled from the input, the stage outputs c and log
AssembledFrom(d, input, c, log) ==
    /\ d.present
    /\ d.title = input.title
    /\ d.context = input.context
    /\ d.constraints = input.constraints
    /\ d.options = input.options
    /\ d.structured_decision = model_dump(c.structured)
    /\ d.bias_report = model_dump(c.bias_report)
    /\ d.outcome_simulations = model_dump(c.outcomes)
    /\ d.execution_log = log

\* log is the success entries of the three stages, one each, in order
ThreeStagesSucceeded(log) ==
    /\ Len(log) = 3
    /\ \A i \in 1..3 : IsSuccessEntry(log[i], StageAt(i))

\* C26: on a successful process_decision, _save_decision is invoked exactly
\* once, only after the three stages have succeeded, with the fully
\* assembled payload: the title, context, constraints and options of the
\* input, the validated outputs of the three stages and the complete log.
\* A Decision enters the session only in the step that ends the third
\* stage, never a second time; the commit inserts it as one new row, and
\* the Decision returned is that one.
C26_SavedOnceWhenComplete ==
    [][ InProcessDecision' =>
            /\ (session'.pending /\ session' # session) =>
                   /\ opc = "running" /\ opc' = "committing"
                   /\ session = NoSession
                   /\ ThreeStagesSucceeded(execution_log')
                   /\ ValidatedOutput(STRUCTURING, ctx'.structured)
                   /\ ValidatedOutput(BIAS, ctx'.bias_report)
                   /\ ValidatedOutput(OUTCOME, ctx'.outcomes)
                   /\ AssembledFrom(session'.decision, op.decision_input,
                                    ctx', execution_log')
            /\ (result'.kind = "returned" /\ result # result') =>
                   /\ ~session.pending
                   /\ AssembledFrom(result'.decision, op.decision_input,
                                    ctx, execution_log)
                   /\ db'[session.key] = result'.decision
            /\ db' # db =>
                   /\ session.pending /\ ~session'.pending
                   /\ \E k \in DecisionKeys :
                         /\ ~db[k].present
                         /\ db' = [db EXCEPT ![k] = session.decision]
      ]_vars

\* a process_decision with lists in its input was saved and returned
C26_Witness ==
    /\ InProcessDecision
    /\ opc = "done"
    /\ result.kind = "returned"
    /\ result.decision.options # <<>>
    /\ db[session.key] = result.decision

\* ------------------------------------------------------------------------
\* Stage outputs
\* ------------------------------------------------------------------------
\* the stage outputs that process_decision holds
Held(c) ==
    {a \in {STRUCTURING, BIAS, OUTCOME} :
        CASE a = STRUCTURING -> c.structured # NoValue
          [] a = BIAS -> c.bias_report # NoValue
          [] OTHER -> c.outcomes # NoValue}

OutputOf(c, a) ==
    CASE a = STRUCTURING -> c.structured
      [] a = BIAS -> c.bias_report
      [] OTHER -> c.outcomes

\* C27: stage outputs flow forward unchanged. In every step of a
\* process_decision run: an output that is held is not modified; an output
\* is added only for the stage that has just ended, and it passed the
\* validation of that stage; every upstream call made for BiasDetection
\* carries the output of Structuring, every call made for OutcomeSimulation
\* the outputs of Structuring and BiasDetection; and the Decision handed to
\* persistence is made of the same three values.
C27_OutputsFlowUnchanged ==
    [][ (InProcessDecision /\ op' = op /\ nops' = nops) =>
            /\ \A a \in Held(ctx) : OutputOf(ctx', a) = OutputOf(ctx, a)
            /\ \A a \in Held(ctx') \ Held(ctx) :
                   /\ a = stage
                   /\ ValidatedOutput(a, OutputOf(ctx', a))
            /\ \A i \in 1..Len(upstream') :
                   /\ upstream'[i].agent = BIAS =>
                          /\ STRUCTURING \in Held(ctx')
                          /\ upstream'[i].input =
                                [structured_decision |->
                                    model_dump(ctx'.structured)]
                   /\ upstream'[i].agent = OUTCOME =>
                          /\ {STRUCTURING, BIAS} \subseteq Held(ctx')
                          /\ upstream'[i].input =
                                [structured_decision |->
                                    model_dump(ctx'.structured),
                                 bias_report |->
                                    model_dump(ctx'.bias_report)]
            /\ session'.decision.present =>
                   /\ Held(ctx') = {STRUCTURING, BIAS, OUTCOME}
                   /\ ctx'.outcomes = outcome'.value
                   /\ session'.decision.structured_decision
                         = model_dump(ctx'.structured)
                   /\ session'.decision.bias_report
                         = model_dump(ctx'.bias_report)
                   /\ session'.decision.outcome_simulations
                         = model_dump(ctx'.outcomes)
      ]_vars

\* the third stage is called again after a failed attempt, with the outputs
\* of the first two stages
C27_Witness ==
    /\ InProcessDecision
    /\ stage = OUTCOME
    /\ pc = "awaiting"
    /\ Len(calls) >= 2
    /\ upstream[Len(upstream)].input.bias_report = model_dump(ctx.bias_report)
    /\ ctx.bias_report # NoValue

\* ------------------------------------------------------------------------
\* The attempt counter
\* ------------------------------------------------------------------------
\* the calls made to the model of call i before call i
EarlierCallsTo(i) == {j \in 1..(i - 1) : calls[j].model = calls[i].model}

\* attempt i failed validation and was followed by a call to the same model
RetriedOnSameModel(i) ==
    /\ i < Len(calls)
    /\ calls[i + 1].model = calls[i].model

\* C28: in an invocation of generate_structured started with retry_count 0,
\* at every upstream call the attempt counter lies in 0..MAX_RETRIES and
\* equals the number of calls already made to the same model in this
\* invocation, and an attempt that fails validation is retried on the same
\* model exactly when its counter is below MAX_RETRIES.
C28_AttemptCounter ==
    (Started /\ args.retry_count = 0) =>
        /\ \A i \in 1..Len(calls) :
              /\ calls[i].retry_count \in 0..MAX_RETRIES
              /\ calls[i].retry_count = Cardinality(EarlierCallsTo(i))
        /\ \A i \in 1..Len(responses) :
              FailsValidation(responses[i]) =>
                  (RetriedOnSameModel(i) <=> calls[i].retry_count < MAX_RETRIES)

\* the last retry on Fallback has failed validation
C28_Witness ==
    /\ Started
    /\ args = Frame(PRIMARY, 0)
    /\ MAX_RETRIES >= 1
    /\ Done
    /\ calls[Len(calls)] = Frame(FALLBACK, MAX_RETRIES)
    /\ FailsValidation(responses[Len(responses)])

\* ------------------------------------------------------------------------
\* The shape of the log entries
\* ------------------------------------------------------------------------
\* C29 as stated: every entry of the execution log has a stage name, a
\* status that is success or failed, and a model_used value.
C29_EveryEntryHasModel ==
    \A i \in 1..Len(execution_log) :
        /\ IsStageEntry(execution_log[i])
        /\ execution_log[i].status \in {"success", "failed"}
        /\ "model_used" \in DOMAIN execution_log[i]

\* e is the marker that the except clauses of process_decision append
IsPipelineMarker(e) ==
    /\ "event" \in DOMAIN e
    /\ e.event \in {"pipeline_failed", "pipeline_error"}
    /\ {"error", "timestamp"} \subseteq DOMAIN e
    /\ DOMAIN e \cap {"agent", "status", "model_used"} = {}

\* C29: every entry of the execution log is of one of three shapes: the
\* success entry of a stage, with the stage name, status success and the
\* model used; the failed entry of a stage, with the stage name, status
\* failed and the error but no model; or the pipeline marker, with an event
\* name, the error and a timestamp but no stage name, status or model,
\* which occurs only as the last entry of a process_decision that failed.
C29_EntryShapes ==
    \A i \in 1..Len(execution_log) :
        LET e == execution_log[i]
        IN  \/ /\ IsStageEntry(e)
               /\ e.agent \in AllAgents
               /\ e.status = "success"
               /\ "model_used" \in DOMAIN e
               /\ e.model_used \in ModelName
               /\ "error" \notin DOMAIN e
            \/ /\ IsStageEntry(e)
               /\ e.agent \in AllAgents
               /\ e.status = "failed"
               /\ "error" \in DOMAIN e
               /\ "model_used" \notin DOMAIN e
            \/ /\ IsPipelineMarker(e)
               /\ i = Len(execution_log)
               /\ InProcessDecision
               /\ opc = "done"
               /\ result.kind = "raised"

\* an aborted run whose second stage failed: a success entry, a failed
\* entry and the marker
C29_Witness ==
    /\ InProcessDecision
    /\ opc = "done"
    /\ Len(execution_log) = 3
    /\ IsSuccessEntry(execution_log[1], STRUCTURING)
    /\ IsFailedEntry(execution_log[2], BIAS)
    /\ IsPipelineMarker(execution_log[3])

\* ------------------------------------------------------------------------
\* Code fences
\* ------------------------------------------------------------------------
\* what may follow the marker on the opening fence line: nothing or a
\* language tag
FenceTags == {<<>>, <<"j">>}

\* payloads: documents, bare or followed or surrounded by whitespace
Payloads ==
    { <<"J">>, <<"K">>, <<"X">>, <<"J", "\n">>, <<"X", "\n">>,
      <<" ", "K", "\n">> }

\* an opening fence line, the payload and the closing fence
Fenced(tag, payload) == Fence \o tag \o <<"\n">> \o payload \o Fence

\* the text, trimmed of surrounding whitespace, is one conforming document
BareAccepted(text) ==
    /\ Len(Strip(text)) = 1
    /\ Conforms(response_model, Strip(text)[1])

\* generate_structured returned on response i
AcceptedAt(i) == i = Len(responses) /\ Succeeded

\* C31: code-fence stripping does not change what is validated: on a
\* response made of an opening fence line, a payload and a closing fence,
\* generate_structured succeeds exactly when the bare payload conforms, and
\* on a response that, leading whitespace apart, does not start with the
\* fence marker it succeeds exactly when the response itself, trimmed of
\* surrounding whitespace, conforms.
C31_FenceStrippingIsTransparent ==
    \A i \in 1..Len(responses) :
        responses[i].kind = "text" =>
            /\ \A tag \in FenceTags, payload \in Payloads :
                  responses[i].text = Fenced(tag, payload) =>
                      (AcceptedAt(i) <=> BareAccepted(payload))
            /\ ~StartsWith(LStrip(responses[i].text), Fence) =>
                  (AcceptedAt(i) <=> BareAccepted(responses[i].text))

\* a fenced conforming document was accepted after a fenced non-conforming
\* one was rejected
C31_Witness ==
    /\ Succeeded
    /\ Len(responses) >= 2
    /\ responses[Len(responses)].text = Fenced(<<"j">>, <<"J", "\n">>)
    /\ responses[1].text = Fenced(<<"j">>, <<"X", "\n">>)

\* ------------------------------------------------------------------------
\* The model recorded in the log
\* ------------------------------------------------------------------------
\* the first and the last upstream call made for an agent
FirstCallOf(a) == CHOOSE i \in CallsOf(a) : \A j \in CallsOf(a) : i <= j

LastCallOf(a) == CHOOSE i \in CallsOf(a) : \A j \in CallsOf(a) : j <= i

\* the stage of agent a escalated to Fallback
Escalated(a) == \E i \in CallsOf(a) : upstream[i].model = FALLBACK

\* C32: in a process_decision run every success entry records the model
\* that produced the validated output of its stage, the model of the last
\* upstream call made for the stage: Primary when the stage succeeded
\* before any escalation, Fallback when it succeeded after escalating; and
\* every stage starts on Primary, whatever an earlier stage did.
C32_SuccessEntryModel ==
    InProcessDecision =>
        /\ \A i \in 1..Len(execution_log) :
              \A a \in AllAgents :
                  IsSuccessEntry(execution_log[i], a) =>
                      /\ CallsOf(a) # {}
                      /\ execution_log[i].model_used
                            = upstream[LastCallOf(a)].model
                      /\ execution_log[i].model_used
                            = IF Escalated(a) THEN FALLBACK ELSE PRIMARY
        /\ \A a \in AllAgents :
              CallsOf(a) # {} => upstream[FirstCallOf(a)].model = PRIMARY

\* Structuring succeeded on Fallback and BiasDetection on Primary
C32_Witness ==
    /\ InProcessDecision
    /\ Len(execution_log) >= 2
    /\ IsSuccessEntry(execution_log[1], STRUCTURING)
    /\ execution_log[1].model_used = FALLBACK
    /\ IsSuccessEntry(execution_log[2], BIAS)
    /\ execution_log[2].model_used = PRIMARY

\* ------------------------------------------------------------------------
\* Concurrent process_decision runs on one orchestrator
\* ------------------------------------------------------------------------
\* self.llm_client of the one DecisionOrchestrator every run executes on:
\* the agents of the orchestrator all hold this client
orchestrator_llm_client(r) == 1

\* the two process_decision calls made on the orchestrator
TwoRuns == {1, 2}

\* process_decision is called on the orchestrator and runs to its first
\* await
SharedRunStarts ==
    /\ \E r \in TwoRuns :
          /\ runs[r].status = "idle"
          /\ runs' = [runs EXCEPT ![r] = RunStart(RunInput(r)).run]
          /\ clients' = [clients EXCEPT
                            ![orchestrator_llm_client(r)] =
                                RunStart(RunInput(r)).current_model]
          /\ alone' = [alone EXCEPT ![r] = RunStart(RunInput(r))]
    /\ UNCHANGED <<clientVars, pipeVars, reflections>>

\* the upstream call of one run is answered and the run proceeds to its
\* next await, reading and writing current_model of the shared client
SharedRunAnswered ==
    /\ \E r \in TwoRuns, res \in RunResults :
          /\ runs[r].status = "running"
          /\ \E next \in {RunStep(runs[r],
                                  clients[orchestrator_llm_client(r)],
                                  res)} :
                /\ runs' = [runs EXCEPT ![r] = next.run]
                /\ clients' = [clients EXCEPT
                                  ![orchestrator_llm_client(r)] =
                                      next.current_model]
          /\ alone' = [alone EXCEPT
                          ![r] = RunStep(alone[r].run,
                                         alone[r].current_model, res)]
    /\ UNCHANGED <<clientVars, pipeVars, reflections>>

SharedNext ==
    \/ SharedRunStarts
    \/ SharedRunAnswered
    \/ RunSaved
    \/ RunSaveFails

SharedSpec == ConcInit /\ [][SharedNext]_vars

\* the step appends the success entry of a stage to the log of run r
LogsSuccess(r) ==
    /\ Len(runs'[r].execution_log) > Len(runs[r].execution_log)
    /\ IsSuccessEntry(runs'[r].execution_log[Len(runs[r].execution_log) + 1],
                      runs[r].stage)

\* C33: when process_decision runs execute concurrently on the same
\* orchestrator, every success entry records the model that produced the
\* validated output of its stage in its own run: the model of the call of
\* that run whose answer was validated in the step that logs the entry.
C33_SharedClientModelUsed ==
    [][ \A r \in Runs :
            LogsSuccess(r) =>
                runs'[r].execution_log[Len(runs[r].execution_log) + 1].model_used
                    = runs[r].model
      ]_vars

\* ------------------------------------------------------------------------
\* What the persisted log holds
\* ------------------------------------------------------------------------
\* every entry of log is the success entry of a stage
OnlySuccessEntries(log) ==
    \A i \in 1..Len(log) :
        /\ IsStageEntry(log[i])
        /\ log[i].status = "success"

\* C34: every execution log that reaches persistence, through the save of
\* process_decision or the commit of add_reflection, holds success entries
\* only: the log of every row of the table, and the log of a Decision that
\* awaits its INSERT, have no failed entry and no pipeline_failed or
\* pipeline_error entry.
C34_PersistedLogOnlySuccess ==
    /\ \A k \in DecisionKeys :
          db[k].present => OnlySuccessEntries(db[k].execution_log)
    /\ session.pending => OnlySuccessEntries(session.decision.execution_log)
    /\ result.kind = "returned" =>
          OnlySuccessEntries(result.decision.execution_log)

\* an add_reflection failed with a failed entry in its in-memory log while
\* the row of the decision keeps its log
C34_Witness ==
    /\ InAddReflection
    /\ opc = "done"
    /\ result.kind = "raised"
    /\ execution_log # <<>>
    /\ IsFailedEntry(execution_log[Len(execution_log)], REFLECTION)
    /\ db[session.key].present
    /\ Len(db[session.key].execution_log) = 3

\* ------------------------------------------------------------------------
\* A commit that fails
\* ------------------------------------------------------------------------
\* the commit of _save_decision fails and the rollback is carried out
SaveCommitFailsRolledBack ==
    /\ InProcessDecision
    /\ opc = "committing"
    /\ opc' = "done"
    /\ session' = NoSession

ReflectionColumns(row) ==
    <<row.reflection_insight, row.actual_outcome, row.actual_outcome_date>>

\* the reflection columns of a row are all NULL or all set
AllOrNone(row) ==
    \/ /\ row.reflection_insight = Null
       /\ row.actual_outcome = ""
       /\ row.actual_outcome_date = 0
    \/ /\ row.reflection_insight # Null
       /\ row.actual_outcome # ""
       /\ row.actual_outcome_date # 0

\* C36: in every persisted state of a decision reflection_insight,
\* actual_outcome and actual_outcome_date are all absent or all present:
\* every step leaves every row with the three columns all NULL or all set,
\* and the only step that changes them is the commit of add_reflection for
\* that row, after the Reflection stage succeeded.
C36_ReflectionColumnsTogether ==
    [][ \A k \in DecisionKeys :
            /\ AllOrNone(db'[k])
            /\ ReflectionColumns(db'[k]) # ReflectionColumns(db[k]) =>
                   /\ InAddReflection
                   /\ opc = "committing"
                   /\ session.key = k
                   /\ outcome.kind = "returned"
                   /\ db'[k].actual_outcome = op.actual_outcome
      ]_vars

\* an add_reflection wrote the three columns of a row that had none of
\* them
C36_Witness ==
    /\ InAddReflection
    /\ opc = "done"
    /\ result.kind = "returned"
    /\ op.stored.actual_outcome_date = 0
    /\ op.stored.reflection_insight = Null
    /\ db[session.key].reflection_insight # Null
    /\ db[session.key].actual_outcome_date # 0

\* ------------------------------------------------------------------------
\* Started on the fallback model
\* ------------------------------------------------------------------------
\* C37: an invocation of generate_structured started on Fallback (with
\* retry_count 0) never calls Primary and never escalates, whatever the
\* fallback setting: it makes at most 1 + MAX_RETRIES upstream calls, all
\* to Fallback, and when every response fails validation it fails
\* terminally, exactly when the last of the 1 + MAX_RETRIES has failed.
C37_StartedOnFallback ==
    StartedOn(FALLBACK) =>
        /\ \A i \in 1..Len(calls) : calls[i].model = FALLBACK
        /\ Switches = {}
        /\ Len(calls) <= Budget
        /\ \A i \in 1..Len(calls) : calls[i].retry_count = i - 1
        /\ AllResponsesFailValidation =>
              /\ Done <=> Len(responses) = Budget
              /\ Done => Failed

\* started on Fallback with fallback enabled: the retries are exhausted
C37_Witness ==
    /\ StartedOn(FALLBACK)
    /\ ENABLE_FALLBACK
    /\ MAX_RETRIES >= 1
    /\ AllResponsesFailValidation
    /\ Len(calls) = Budget
    /\ Failed

\* ------------------------------------------------------------------------
\* Concurrent add_reflection calls for one decision: each request has its
\* own db_session, orchestrator and client; the decisions table is shared
\* ------------------------------------------------------------------------
\* the primary key of the decision the calls are made for
ReflectedKey == 1

\* the Decision a process_decision run has stored: the outputs of the three
\* stages and their three success entries
StoredDecision ==
    Decision(RunInput(ReflectedKey),
             model_dump([doc |-> "J"]), model_dump([doc |-> "K"]),
             model_dump([doc |-> "S"]),
             [i \in 1..3 |-> SuccessEntry(StageAt(i), PRIMARY, i)])

\* the table when the calls arrive: the decision is stored
ReflectInit ==
    /\ InitWithTable([k \in DecisionKeys |->
                         IF k = ReflectedKey THEN StoredDecision
                         ELSE NoDecision])
    /\ MAX_RETRIES <= MaxConcRetries

\* the time of the clock when a call logs and updates: after the stored
\* entries
CallTime(c) == ClockStride + Len(c.execution_log)

\* add_reflection after the Reflection stage has ended with done: the
\* Decision of the session is updated and the commit awaited, or the
\* failure is re-raised
CallAfterStage(c, done) ==
    The({ IF done.raised
          THEN [c EXCEPT !.status = "failed",
                         !.execution_log = log,
                         !.exc = AddReflectionExcept(done.exc)]
          ELSE [c EXCEPT !.status = "committing",
                         !.execution_log = log,
                         !.session = ApplyReflection(c.session, done.value,
                                                     c.actual_outcome,
                                                     CallTime(c), log)] :
          log \in {c.execution_log \o done.entries} })

\* add_reflection from the answer res of its call in flight to its next
\* await
CallStep(c, res) ==
    The({ IF step.do = "recurse"
          THEN [c EXCEPT !.model = step.model,
                         !.retry_count = step.retry_count,
                         !.depth = @ + 1,
                         !.current_model = step.model]
          ELSE The({ CallAfterStage(c, done) :
                     done \in { ExecuteWithLogging(
                                    REFLECTION,
                                    AgentExecute(REFLECTION, gen),
                                    c.current_model, CallTime(c)) :
                                gen \in { IF step.do = "return"
                                          THEN Returned(step.value)
                                          ELSE Raised(Unwind(step.exc,
                                                             c.depth - 1)) } } }) :
          step \in {FrameStep(c.model, c.retry_count, res)} })

\* POST /api/decisions/{id}/reflect for the stored decision: get_db opens
\* the session of the request, add_reflection awaits its select
CallArrives ==
    /\ \E r \in TwoRuns, actual_outcome \in ActualOutcomes :
          /\ reflections[r].status = "idle"
          /\ reflections' = [reflections EXCEPT
                                ![r] = [NoReflection EXCEPT
                                           !.status = "selecting",
                                           !.actual_outcome = actual_outcome]]
    /\ UNCHANGED <<clientVars, pipeVars, runs, clients, alone>>

\* the select of a call returns the row: the Decision is loaded into the
\* session of the call and the Reflection stage is started on its client
CallSelects ==
    /\ \E r \in TwoRuns :
          /\ reflections[r].status = "selecting"
          /\ db[ReflectedKey].present
          /\ reflections' = [reflections EXCEPT
                                ![r] = [@ EXCEPT
                                           !.status = "running",
                                           !.session =
                                               [decision |-> db[ReflectedKey],
                                                key |-> ReflectedKey,
                                                pending |-> FALSE,
                                                dirty |-> {}],
                                           !.model = PRIMARY,
                                           !.depth = 1,
                                           !.current_model = PRIMARY]]
    /\ UNCHANGED <<clientVars, pipeVars, runs, clients, alone>>

\* the upstream call of one add_reflection is answered and the call
\* proceeds to its next await
CallAnswered ==
    /\ \E r \in TwoRuns, res \in RunResults :
          /\ reflections[r].status = "running"
          /\ \E next \in {CallStep(reflections[r], res)} :
                reflections' = [reflections EXCEPT ![r] = next]
    /\ UNCHANGED <<clientVars, pipeVars, runs, clients, alone>>

\* the commit of one call: the UPDATE writes the attributes its session
\* recorded to the row
CallCommits ==
    /\ \E r \in TwoRuns :
          /\ reflections[r].status = "committing"
          /\ db' = [db EXCEPT
                       ![ReflectedKey] = Flush(db[ReflectedKey],
                                               reflections[r].session)]
          /\ reflections' = [reflections EXCEPT
                                ![r] = [@ EXCEPT !.status = "refreshing",
                                                 !.session.dirty = {}]]
    /\ UNCHANGED <<clientVars, opc, op, stage, execution_log, ctx, upstream,
                   session, result, nops, runs, clients, alone>>

\* the refresh of one call reloads the Decision from the row and the call
\* returns it
CallRefreshes ==
    /\ \E r \in TwoRuns :
          /\ reflections[r].status = "refreshing"
          /\ reflections' = [reflections EXCEPT
                                ![r] = [@ EXCEPT
                                           !.status = "done",
                                           !.session.decision =
                                               db[ReflectedKey],
                                           !.decision = db[ReflectedKey]]]
    /\ UNCHANGED <<clientVars, pipeVars, runs, clients, alone>>

\* a database call of one add_reflection (select, commit or refresh)
\* fails: its session is rolled back and the failure is wrapped
CallDbFails ==
    /\ \E r \in TwoRuns :
          /\ reflections[r].status \in {"selecting", "committing",
                                        "refreshing"}
          /\ reflections' = [reflections EXCEPT
                                ![r] = [@ EXCEPT
                                           !.status = "failed",
                                           !.session = NoSession,
                                           !.exc = AddReflectionExcept(DbError)]]
    /\ UNCHANGED <<clientVars, pipeVars, runs, clients, alone>>

ReflectNext ==
    \/ CallArrives
    \/ CallSelects
    \/ CallAnswered
    \/ CallCommits
    \/ CallRefreshes
    \/ CallDbFails

ReflectSpec == ReflectInit /\ [][ReflectNext]_vars

\* the call r of add_reflection returned its Decision
CallSucceeded(r) == reflections[r].status = "done"

\* the log holds every entry of the log of call r, in order
HoldsEntriesOf(log, r) ==
    \E i \in 0..Len(log) :
       /\ i + Len(reflections[r].execution_log) <= Len(log)
       /\ \A j \in 1..Len(reflections[r].execution_log) :
              log[i + j] = reflections[r].execution_log[j]

\* C38: when two add_reflection calls for the same stored decision, each
\* with its own session, have both returned, the stored execution log is
\* the original log followed by the Reflection entries of both calls
C38_BothReflectionsLogged ==
    (\A r \in TwoRuns : CallSucceeded(r)) =>
        /\ SubSeq(db[ReflectedKey].execution_log, 1, 3)
               = StoredDecision.execution_log
        /\ Len(db[ReflectedKey].execution_log)
               = 3 + Len(reflections[1].execution_log)
                   + Len(reflections[2].execution_log)
        /\ \A r \in TwoRuns :
               HoldsEntriesOf(SubSeq(db[ReflectedKey].execution_log, 4,
                                     Len(db[ReflectedKey].execution_log)), r)

\* ------------------------------------------------------------------------
\* process_decision runs on their own, every await eventually returning
\* ------------------------------------------------------------------------
ProcessNext ==
    \/ ProcessDecision
    \/ StageCallAgain
    \/ StageSucceeded
    \/ PipelineCompleted
    \/ StageFailed
    \/ SaveCommitted
    \/ SaveRefreshed
    \/ SaveFails

\* the upstream call a stage awaits returns or raises
UpstreamReturns ==
    \/ StageCallAgain
    \/ StageSucceeded
    \/ PipelineCompleted
    \/ StageFailed

\* the commit or the refresh _save_decision awaits returns or raises
SaveReturns ==
    \/ SaveCommitted
    \/ SaveRefreshed
    \/ SaveFails

\* the settings under which whole runs are followed to their end
ProcessInit == Init /\ MAX_RETRIES <= MaxConcRetries

ProcessSpec == ProcessInit /\ [][ProcessNext]_vars

\* every upstream call and every database call eventually returns
ProcessFairSpec ==
    ProcessSpec /\ WF_vars(UpstreamReturns) /\ WF_vars(SaveReturns)

\* process_decision has ended: it returned the stored Decision, or raised
Terminated ==
    /\ opc = "done"
    /\ \/ /\ result.kind = "returned"
          /\ db[session.key] = result.decision
       \/ result.kind = "raised"

\* C39: every run of process_decision terminates, with a persisted result
\* or with a raised failure, after at most 3 * 2 * (1 + MAX_RETRIES)
\* upstream calls and at most one save (_save_decision is entered at most
\* once in a run: only from a running stage, and no stage runs after it),
\* whatever the upstream answers, provided every upstream call and the
\* save eventually return.
C39_ProcessDecisionTerminates ==
    /\ [](InProcessDecision => Len(upstream) <= 3 * 2 * Budget)
    /\ []((InProcessDecision /\ opc = "done") => Terminated)
    /\ [][ (InProcessDecision' /\ nops' = nops) =>
               /\ (opc' = "committing" /\ opc # "committing") =>
                      opc = "running"
               /\ opc \in {"committing", "refreshing", "done"} =>
                      opc' # "running"
               /\ db' # db => opc = "committing" ]_vars
    /\ (InProcessDecision /\ opc # "done") ~> Terminated

\* a run that used every call of its budget in each stage, was saved and
\* returned the stored Decision
C39_Witness ==
    /\ InProcessDecision
    /\ MAX_RETRIES >= 1
    /\ Len(upstream) = 3 * 2 * Budget
    /\ Terminated
    /\ result.kind = "returned"

====
